---------------------------- MODULE Spec2Model ----------------------------
(***************************************************************************)
(* ScholarBridge document retrieval core: semantic chunking, overlap       *)
(* stitching, metadata enrichment, BM25 + vector hybrid retrieval with     *)
(* Reciprocal Rank Fusion, and the reranker's diversity filter.            *)
(*                                                                         *)
(* A text is a sequence of one-character strings; Python's str operations  *)
(* (slicing, strip, split, startswith, find) are operators on sequences.   *)
(***************************************************************************)
EXTENDS Integers, Sequences, FiniteSets, TLC

(***************************************************************************)
(* Bounds of the model.                                                    *)
(***************************************************************************)
MaxTextLen == 5

(***************************************************************************)
(* Python str primitives.                                                  *)
(***************************************************************************)
NL == "\n"
TAB == "\t"

\* str.isspace() for the characters of the model
IsSpace(c) == c \in {" ", NL, TAB}

Min2(a, b) == IF a <= b THEN a ELSE b
Max2(a, b) == IF a >= b THEN a ELSE b

\* s[i:j] with 0-based non-negative i, j (clamped to len(s))
Slice(s, i, j) == SubSeq(s, Min2(i, Len(s)) + 1, Min2(j, Len(s)))

\* s[-n:] for n >= 0: s[-0:] is s[0:], the whole string
NegSlice(s, n) == IF n = 0 \/ n >= Len(s) THEN s ELSE SubSeq(s, Len(s) - n + 1, Len(s))

RECURSIVE LStrip(_)
LStrip(s) == IF s # <<>> /\ IsSpace(Head(s)) THEN LStrip(Tail(s)) ELSE s

RECURSIVE RStrip(_)
RStrip(s) ==
    IF s # <<>> /\ IsSpace(s[Len(s)]) THEN RStrip(SubSeq(s, 1, Len(s) - 1)) ELSE s

\* str.strip()
Strip(s) == RStrip(LStrip(s))

\* s.startswith(p)
StartsWith(s, p) == Len(p) <= Len(s) /\ SubSeq(s, 1, Len(p)) = p

\* s.endswith(p); used by the properties
EndsWith(s, p) == Len(p) <= Len(s) /\ SubSeq(s, Len(s) - Len(p) + 1, Len(s)) = p

MatchAt(s, i, sep) == i + Len(sep) - 1 <= Len(s) /\ SubSeq(s, i, i + Len(sep) - 1) = sep

SetMin(S) == CHOOSE x \in S : \A y \in S : x <= y

\* s.find(c): 0-based index of the first occurrence, -1 when absent
Find(s, sep) ==
    LET M == {i \in 1..Len(s) : MatchAt(s, i, sep)}
    IN  IF M = {} THEN -1 ELSE SetMin(M) - 1

RECURSIVE SplitFrom(_, _, _, _)
SplitFrom(s, sep, from, M) ==
    LET later == {i \in M : i >= from}
    IN  IF later = {} THEN <<SubSeq(s, from, Len(s))>>
        ELSE LET m == SetMin(later)
             IN  <<SubSeq(s, from, m - 1)>> \o SplitFrom(s, sep, m + Len(sep), M)

\* s.split(sep): leftmost, non-overlapping occurrences of a non-empty sep
Split(s, sep) == SplitFrom(s, sep, 1, {i \in 1..Len(s) : MatchAt(s, i, sep)})

UpperChars == <<"A", "B", "C", "D", "E", "F", "G", "H", "I", "J", "K", "L", "M",
                "N", "O", "P", "Q", "R", "S", "T", "U", "V", "W", "X", "Y", "Z">>
LowerChars == <<"a", "b", "c", "d", "e", "f", "g", "h", "i", "j", "k", "l", "m",
                "n", "o", "p", "q", "r", "s", "t", "u", "v", "w", "x", "y", "z">>
DigitChars == <<"0", "1", "2", "3", "4", "5", "6", "7", "8", "9">>
OtherChars == <<" ", NL, TAB, ".", ",", "_", "-">>

LowerChar(c) ==
    IF \E i \in 1..26 : UpperChars[i] = c
    THEN LowerChars[CHOOSE i \in 1..26 : UpperChars[i] = c]
    ELSE c

\* str.lower()
Lower(s) == [i \in 1..Len(s) |-> LowerChar(s[i])]

\* s contains p (the Python `p in s`)
Contains(s, p) == \E i \in 1..(Len(s) - Len(p) + 1) : MatchAt(s, i, p)

(***************************************************************************)
(* Regular expressions of SECTION_PATTERNS, compiled IGNORECASE|MULTILINE. *)
(* A pattern is a set of alternatives; an alternative is a sequence of     *)
(* items: a literal, an optional character (x?), \s*, \s+ or $.            *)
(***************************************************************************)
Lit(s)  == [k |-> "lit", s |-> s]
Opt(c)  == [k |-> "opt", s |-> <<c>>]
Ws0     == [k |-> "ws0", s |-> <<>>]
Ws1     == [k |-> "ws1", s |-> <<>>]
EndL    == [k |-> "end", s |-> <<>>]

\* number of whitespace characters of s from position i on
RECURSIVE SpaceRun(_, _)
SpaceRun(s, i) == IF i <= Len(s) /\ IsSpace(s[i]) THEN 1 + SpaceRun(s, i + 1) ELSE 0

\* the alternative alt, from its item j, matches s at position i (1-based)
RECURSIVE MatchItems(_, _, _, _)
MatchItems(s, i, alt, j) ==
    IF j > Len(alt) THEN TRUE
    ELSE LET it == alt[j]
         IN  CASE it.k = "lit" -> MatchAt(s, i, it.s) /\ MatchItems(s, i + Len(it.s), alt, j + 1)
               [] it.k = "opt" -> \/ (MatchAt(s, i, it.s) /\ MatchItems(s, i + 1, alt, j + 1))
                                  \/ MatchItems(s, i, alt, j + 1)
               [] it.k = "ws0" -> \E n \in 0..SpaceRun(s, i) : MatchItems(s, i + n, alt, j + 1)
               [] it.k = "ws1" -> \E n \in 1..SpaceRun(s, i) : MatchItems(s, i + n, alt, j + 1)
               [] it.k = "end" -> (i = Len(s) + 1 \/ (i <= Len(s) /\ s[i] = NL))
                                  /\ MatchItems(s, i, alt, j + 1)

\* pattern.match(s) on a lower-cased s (IGNORECASE): some alternative matches at
\* the start of s
ReMatch(alts, s) == \E a \in alts : MatchItems(s, 1, a, 1)

SECTION_PATTERNS == <<
    [name |-> "abstract", alts |-> {
        <<Lit(<<"a", "b", "s", "t", "r", "a", "c", "t">>), Ws0, EndL>>,
        <<Lit(<<"s", "u", "m", "m", "a", "r", "y">>), Ws0, EndL>>}],
    [name |-> "introduction", alts |-> {
        <<Lit(<<"1">>), Opt("."), Ws0,
          Lit(<<"i", "n", "t", "r", "o", "d", "u", "c", "t", "i", "o", "n">>)>>,
        <<Lit(<<"i", "n", "t", "r", "o", "d", "u", "c", "t", "i", "o", "n">>), Ws0, EndL>>}],
    [name |-> "methods", alts |-> {
        <<Lit(<<"2">>), Opt("."), Ws0, Lit(<<"m", "e", "t", "h", "o", "d">>)>>,
        <<Lit(<<"m", "a", "t", "e", "r", "i", "a", "l">>), Opt("s"), Ws1,
          Lit(<<"a", "n", "d">>), Ws1, Lit(<<"m", "e", "t", "h", "o", "d">>), Opt("s")>>,
        <<Lit(<<"m", "e", "t", "h", "o", "d", "o", "l", "o", "g", "y">>)>>}],
    [name |-> "results", alts |-> {
        <<Lit(<<"3">>), Opt("."), Ws0, Lit(<<"r", "e", "s", "u", "l", "t">>), Opt("s")>>,
        <<Lit(<<"f", "i", "n", "d", "i", "n", "g", "s">>)>>}],
    [name |-> "discussion", alts |-> {
        <<Lit(<<"4">>), Opt("."), Ws0,
          Lit(<<"d", "i", "s", "c", "u", "s", "s", "i", "o", "n">>)>>,
        <<Lit(<<"a", "n", "a", "l", "y", "s", "i", "s">>)>>}],
    [name |-> "conclusion", alts |-> {
        <<Lit(<<"5">>), Opt("."), Ws0,
          Lit(<<"c", "o", "n", "c", "l", "u", "s", "i", "o", "n">>)>>,
        <<Lit(<<"c", "o", "n", "c", "l", "u", "d", "i", "n", "g">>)>>}],
    [name |-> "references", alts |-> {
        <<Lit(<<"r", "e", "f", "e", "r", "e", "n", "c", "e">>), Opt("s"), Ws0, EndL>>,
        <<Lit(<<"b", "i", "b", "l", "i", "o", "g", "r", "a", "p", "h", "y">>)>>}] >>

\* the first section (in dictionary order) whose pattern matches the line, or ""
MatchSection(stripped) ==
    LET lowered == Lower(stripped)
        hits == {k \in 1..Len(SECTION_PATTERNS) : ReMatch(SECTION_PATTERNS[k].alts, lowered)}
    IN  IF hits = {} THEN "" ELSE SECTION_PATTERNS[SetMin(hits)].name

(***************************************************************************)
(* SemanticChunker (chunking/semantic_chunker.py).                         *)
(***************************************************************************)
ChunkConfig(cs, op, mn, sd) ==
    [chunk_size |-> cs, overlap_percent |-> op, min_chunk_size |-> mn, section_detection |-> sd]

\* defaults of the ChunkConfig dataclass
DefaultChunkSize == 1000
DefaultOverlapPercent == 20
DefaultMinChunkSize == 100

Separators == << <<NL, NL>>, <<NL>>, <<".", " ">>, <<",", " ">>, <<" ">> >>

Raw(t, section) == [text |-> t, section |-> section]

\* _hard_split: fixed-width cuts, each stripped, empty cuts skipped
RECURSIVE HardSplitFrom(_, _, _, _)
HardSplitFrom(t, section, cfg, i) ==
    IF i >= Len(t) THEN <<>>
    ELSE LET chunk_text == Strip(Slice(t, i, i + cfg.chunk_size))
         IN  (IF chunk_text # <<>> THEN <<Raw(chunk_text, section)>> ELSE <<>>)
             \o HardSplitFrom(t, section, cfg, i + cfg.chunk_size)

HardSplit(t, section, cfg) == HardSplitFrom(t, section, cfg, 0)

\* the closing step of _merge_splits ("Don't forget the last chunk")
MergeLast(chunks, current_chunk, separator, section, cfg) ==
    IF current_chunk # <<>> /\ Len(Strip(current_chunk)) >= cfg.min_chunk_size
    THEN Append(chunks, Raw(Strip(current_chunk), section))
    ELSE IF current_chunk # <<>> /\ chunks # <<>>
    THEN [chunks EXCEPT ![Len(chunks)] =
             Raw(@.text \o separator \o Strip(current_chunk), @.section)]
    ELSE chunks

\* the flush of _merge_splits when the next part does not fit
MergeFlush(chunks, current_chunk, section, cfg) ==
    IF current_chunk # <<>> /\ Len(current_chunk) >= cfg.min_chunk_size
    THEN Append(chunks, Raw(Strip(current_chunk), section))
    ELSE chunks

RECURSIVE RecursiveSplit(_, _, _)
RECURSIVE TrySeparators(_, _, _, _)
RECURSIVE MergeLoop(_, _, _, _, _, _, _)

\* the loop of _merge_splits over parts[i..], with its two locals
MergeLoop(parts, i, chunks, current_chunk, separator, section, cfg) ==
    IF i > Len(parts)
    THEN MergeLast(chunks, current_chunk, separator, section, cfg)
    ELSE LET part == parts[i]
             test_chunk == IF current_chunk # <<>>
                           THEN current_chunk \o separator \o part ELSE part
         IN  IF Len(test_chunk) <= cfg.chunk_size
             THEN MergeLoop(parts, i + 1, chunks, test_chunk, separator, section, cfg)
             ELSE LET flushed == MergeFlush(chunks, current_chunk, section, cfg)
                  IN  IF Len(part) > cfg.chunk_size
                      THEN MergeLoop(parts, i + 1,
                                     flushed \o RecursiveSplit(part, section, cfg),
                                     <<>>, separator, section, cfg)
                      ELSE MergeLoop(parts, i + 1, flushed, part, separator, section, cfg)

\* _merge_splits
MergeSplits(parts, separator, section, cfg) ==
    MergeLoop(parts, 1, <<>>, <<>>, separator, section, cfg)

\* the separator loop of _recursive_split from separator k on, then the fallback
TrySeparators(t, section, cfg, k) ==
    IF k > Len(Separators) THEN HardSplit(t, section, cfg)
    ELSE LET parts == Split(t, Separators[k])
         IN  IF Len(parts) > 1
             THEN LET chunks == MergeSplits(parts, Separators[k], section, cfg)
                  IN  IF chunks # <<>> THEN chunks
                      ELSE TrySeparators(t, section, cfg, k + 1)
             ELSE TrySeparators(t, section, cfg, k + 1)

\* _recursive_split
RecursiveSplit(t, section, cfg) ==
    IF Len(t) <= cfg.chunk_size
    THEN IF Strip(t) # <<>> THEN <<Raw(t, section)>> ELSE <<>>
    ELSE TrySeparators(t, section, cfg, 1)

\* detect_sections, first loop: the (section_name, line index) of every heading line
HeadingLines(lines) ==
    LET idx == {i \in 1..Len(lines) : MatchSection(Strip(lines[i])) # ""}
        RECURSIVE InOrder(_)
        InOrder(S) == IF S = {} THEN <<>>
                      ELSE LET m == SetMin(S)
                           IN  <<[name |-> MatchSection(Strip(lines[m])), line |-> m]>>
                               \o InOrder(S \ {m})
    IN  InOrder(idx)

\* lines_cumulative: the 0-based character offset at which line i (1-based) starts
RECURSIVE LineStart(_, _)
LineStart(lines, i) == IF i = 1 THEN 0 ELSE LineStart(lines, i - 1) + Len(lines[i - 1]) + 1

\* the variant in which every section runs to the end of the text
DetectSectionsToEnd(t) ==
    LET lines == Split(t, <<NL>>)
        heads == HeadingLines(lines)
    IN  [i \in 1..Len(heads) |->
            [name  |-> heads[i].name,
             start |-> LineStart(lines, heads[i].line),
             end   |-> Len(t)]]

\* detect_sections: (section_name, start, end) in 0-based character offsets
DetectSections(t) ==
    LET lines == Split(t, <<NL>>)
        heads == HeadingLines(lines)
    IN  [i \in 1..Len(heads) |->
            [name  |-> heads[i].name,
             start |-> LineStart(lines, heads[i].line),
             end   |-> IF i + 1 <= Len(heads)
                       THEN LineStart(lines, heads[i + 1].line) ELSE Len(t)]]

RECURSIVE SplitSections(_, _, _, _)
SplitSections(t, sections, cfg, i) ==
    IF i > Len(sections) THEN <<>>
    ELSE LET section_text == Strip(Slice(t, sections[i].start, sections[i].end))
         IN  (IF section_text # <<>>
              THEN RecursiveSplit(section_text, sections[i].name, cfg) ELSE <<>>)
             \o SplitSections(t, sections, cfg, i + 1)

\* _recursive_split_with_sections
RecursiveSplitWithSections(t, sections, cfg) ==
    LET pre_section_text == Strip(Slice(t, 0, sections[1].start))
    IN  (IF sections[1].start > 0 /\ pre_section_text # <<>>
         THEN RecursiveSplit(pre_section_text, "preamble", cfg) ELSE <<>>)
        \o SplitSections(t, sections, cfg, 1)

\* chunk(), steps 1 and 2: the raw (chunk_text, section_name) tuples
RawChunks(t, cfg) ==
    LET sections == IF cfg.section_detection THEN DetectSections(t) ELSE <<>>
    IN  IF sections # <<>> THEN RecursiveSplitWithSections(t, sections, cfg)
        ELSE RecursiveSplit(t, "body", cfg)

\* int(chunk_size * overlap_percent / 100)
OverlapChars(cfg) == (cfg.chunk_size * cfg.overlap_percent) \div 100

\* prev_text[-overlap_chars:] if len(prev_text) > overlap_chars else prev_text
\* the variant prev_text[:overlap_chars], reading the overlap from the start of
\* the previous text
OverlapContentFromStart(prev_text, overlap_chars) ==
    IF Len(prev_text) > overlap_chars THEN Slice(prev_text, 0, overlap_chars) ELSE prev_text

OverlapContent(prev_text, overlap_chars) ==
    IF Len(prev_text) > overlap_chars THEN NegSlice(prev_text, overlap_chars) ELSE prev_text

\* _apply_overlap, one iteration of its loop
OverlapOne(chunks, i, cfg) ==
    LET t == chunks[i].text
        overlap_content == OverlapContent(chunks[i - 1].text, OverlapChars(cfg))
        prepend == i > 1 /\ ~StartsWith(t, overlap_content)
    IN  [text    |-> IF prepend THEN overlap_content \o <<" ">> \o t ELSE t,
         section |-> chunks[i].section,
         overlap_prev |-> IF prepend THEN Len(overlap_content) ELSE 0,
         overlap_next |-> IF i < Len(chunks)
                          THEN Len(OverlapContent(t, OverlapChars(cfg))) ELSE 0]

\* _apply_overlap
ApplyOverlap(chunks, cfg) == [i \in 1..Len(chunks) |-> OverlapOne(chunks, i, cfg)]

\* Python's None, and None where an int is expected
None == <<>>
NoInt == 0 - 1

\* a chunk ID is the sequence of the fields its f-string joins with "_"
\* provisional ID of _create_chunks: f"{source}_{section}_{i}_{uuid4().hex[:8]}"
ProvisionalId(source, section, i, token) == <<source, section, i, token>>

\* _create_chunks, one Chunk; i is the 0-based enumerate index
CreateChunk(d, i, source, token) ==
    [id   |-> ProvisionalId(source, d.section, i, token),
     text |-> d.text,
     metadata |-> [source |-> source, page |-> 0, section |-> d.section,
                   chunk_index |-> i, parent_chunk_id |-> None,
                   overlap_with_prev |-> d.overlap_prev,
                   overlap_with_next |-> d.overlap_next,
                   semantic_tags |-> <<>>]]

\* the variant enumerate(chunks_data, start=1)
CreateChunksFromOne(chunks_data, source, tokens) ==
    [i \in 1..Len(chunks_data) |-> CreateChunk(chunks_data[i], i, source, tokens[i])]

\* _create_chunks; tokens[i] is the uuid4 token drawn for the i-th chunk
CreateChunks(chunks_data, source, tokens) ==
    [i \in 1..Len(chunks_data) |-> CreateChunk(chunks_data[i], i - 1, source, tokens[i])]

(***************************************************************************)
(* MetadataEnricher (chunking/metadata_enricher.py).                       *)
(***************************************************************************)
AllChars == LowerChars \o UpperChars \o DigitChars \o OtherChars

Code(c) == CHOOSE i \in 1..Len(AllChars) : AllChars[i] = c

\* hashlib.md5(s.encode()).hexdigest()[:n]: a fixed function of the characters of
\* s, with 16^n values (n <= 6 keeps the arithmetic within TLC's integers)
RECURSIVE Digest(_)
Digest(s) ==
    IF Len(s) = 0 THEN 5
    ELSE IF Len(s) = 1 THEN Code(s[1])
    ELSE LET h == Len(s) \div 2
         IN  (Digest(SubSeq(s, 1, h)) * 31 + Digest(SubSeq(s, h + 1, Len(s))) * 17 + Len(s))
             % 1048576

Md5Hex(s, n) == ToString(Digest(s) % (16 ^ Min2(n, 5)))

HeuristicKeywords == <<
    [name |-> "introduction", kws |-> {
        <<"w", "e", " ", "p", "r", "o", "p", "o", "s", "e">>,
        <<"t", "h", "i", "s", " ", "p", "a", "p", "e", "r">>,
        <<"w", "e", " ", "p", "r", "e", "s", "e", "n", "t">>,
        <<"i", "n", " ", "t", "h", "i", "s", " ", "w", "o", "r", "k">>}],
    [name |-> "methods", kws |-> {
        <<"e", "x", "p", "e", "r", "i", "m", "e", "n", "t">>,
        <<"d", "a", "t", "a", "s", "e", "t">>,
        <<"t", "r", "a", "i", "n", "i", "n", "g">>,
        <<"e", "v", "a", "l", "u", "a", "t", "i", "o", "n">>}],
    [name |-> "results", kws |-> {
        <<"a", "c", "c", "u", "r", "a", "c", "y">>,
        <<"p", "e", "r", "f", "o", "r", "m", "a", "n", "c", "e">>,
        <<"t", "a", "b", "l", "e">>,
        <<"f", "i", "g", "u", "r", "e">>,
        <<"r", "e", "s", "u", "l", "t", "s", " ", "s", "h", "o", "w">>}],
    [name |-> "conclusion", kws |-> {
        <<"l", "i", "m", "i", "t", "a", "t", "i", "o", "n">>,
        <<"f", "u", "t", "u", "r", "e", " ", "w", "o", "r", "k">>,
        <<"i", "n", " ", "c", "o", "n", "c", "l", "u", "s", "i", "o", "n">>,
        <<"w", "e", " ", "h", "a", "v", "e", " ", "s", "h", "o", "w", "n">>}] >>

\* _detect_section: heading patterns on the first five lines, then the keyword
\* heuristics; "" stands for None
DetectSection(t) ==
    LET lines == Split(t, <<NL>>)
        heads == {i \in 1..Min2(5, Len(lines)) : MatchSection(Strip(lines[i])) # ""}
        text_lower == Lower(t)
        hits == {k \in 1..Len(HeuristicKeywords) :
                    \E kw \in HeuristicKeywords[k].kws : Contains(text_lower, kw)}
    IN  IF heads # {} THEN MatchSection(Strip(lines[SetMin(heads)]))
        ELSE IF hits # {} THEN HeuristicKeywords[SetMin(hits)].name
        ELSE ""

\* section.replace(" ", "_").lower() if section else "unknown"; every section
\* label of the program is lower-case without spaces
SectionClean(section) == IF section = "" THEN "unknown" ELSE section

\* _generate_hierarchical_id: f"{source_hash}_{section_clean}_{index:04d}_{content_hash}"
GenerateHierarchicalId(source, section, index, t) ==
    <<Md5Hex(source, 8), SectionClean(section), index, Md5Hex(t, 6)>>

EnricherConfig(st, hi, ep) ==
    [semantic_tagging |-> st, hierarchical_ids |-> hi, extract_page_numbers |-> ep]

\* the section of new_metadata in _enrich_chunk
EnrichedSection(chunk) ==
    IF chunk.metadata.section = "" \/ chunk.metadata.section = "body"
    THEN LET section == DetectSection(chunk.text)
         IN  IF section # "" THEN section ELSE chunk.metadata.section
    ELSE chunk.metadata.section

\* the variant that keeps the provisional id of _create_chunks
ProvisionalIdKept(chunk, index, ecfg) == chunk.id

\* the id of the chunk _enrich_chunk returns; index is the 0-based list position
EnrichedId(chunk, index, ecfg) ==
    IF ecfg.hierarchical_ids
    THEN GenerateHierarchicalId(chunk.metadata.source, EnrichedSection(chunk), index, chunk.text)
    ELSE chunk.id

(***************************************************************************)
(* OverlapManager (chunking/overlap_manager.py).                           *)
(***************************************************************************)
OverlapConfig(op, mn, mx) ==
    [overlap_percent |-> op, min_overlap_chars |-> mn, max_overlap_chars |-> mx]

\* _calculate_overlap_size; int(avg_size * percent / 100) with avg_size = (a+b)/2
CalculateOverlapSize(text_a, text_b, overlap_percent, ocfg) ==
    LET overlap == ((Len(text_a) + Len(text_b)) * overlap_percent) \div 200
        bounded == Min2(Max2(overlap, ocfg.min_overlap_chars), ocfg.max_overlap_chars)
        min_size == Min2(Len(text_a), Len(text_b))
    IN  Min2(bounded, min_size \div 2)

\* _get_overlap_content with from_end=True
GetOverlapContent(t, overlap_size) ==
    IF overlap_size <= 0 THEN <<>>
    ELSE LET raw_content == NegSlice(t, overlap_size)
             space_idx == Find(raw_content, <<" ">>)
         IN  IF space_idx > 0 /\ space_idx < Len(raw_content) \div 2
             THEN Slice(raw_content, space_idx + 1, Len(raw_content))
             ELSE raw_content

\* the overlap_content apply_overlap computes for chunk i > 1
ManagerOverlapContent(chunks, i, effective_percent, ocfg) ==
    GetOverlapContent(chunks[i - 1].text,
                      CalculateOverlapSize(chunks[i - 1].text, chunks[i].text,
                                           effective_percent, ocfg))

\* apply_overlap prepends to chunk i: overlap_size > 0 and "not already present"
ManagerPrepends(chunks, i, effective_percent, ocfg) ==
    /\ i > 1
    /\ CalculateOverlapSize(chunks[i - 1].text, chunks[i].text, effective_percent, ocfg) > 0
    /\ ~StartsWith(chunks[i].text,
                   Strip(ManagerOverlapContent(chunks, i, effective_percent, ocfg)))

\* what apply_overlap puts in front of chunk i, before the " "
PrependedContent(chunks, i, effective_percent, ocfg) ==
    RStrip(ManagerOverlapContent(chunks, i, effective_percent, ocfg))

\* _copy_chunk_with_overlap
CopyChunkWithOverlap(chunk, overlap_prev, overlap_next, new_text) ==
    [id   |-> chunk.id,
     text |-> new_text,
     metadata |-> [chunk.metadata EXCEPT !.overlap_with_prev = overlap_prev,
                                         !.overlap_with_next = overlap_next]]

\* apply_overlap, one iteration of its loop
ManagerOverlapOne(chunks, i, effective_percent, ocfg) ==
    LET prepends == ManagerPrepends(chunks, i, effective_percent, ocfg)
        new_text == IF prepends
                    THEN PrependedContent(chunks, i, effective_percent, ocfg)
                         \o <<" ">> \o chunks[i].text
                    ELSE chunks[i].text
        overlap_prev == IF prepends
                        THEN Len(ManagerOverlapContent(chunks, i, effective_percent, ocfg))
                        ELSE 0
        overlap_next == IF i < Len(chunks)
                        THEN CalculateOverlapSize(chunks[i].text, chunks[i + 1].text,
                                                  effective_percent, ocfg)
                        ELSE 0
    IN  CopyChunkWithOverlap(chunks[i], overlap_prev, overlap_next, new_text)

\* apply_overlap; the single-chunk case copies the chunk with zero overlaps
ManagerApplyOverlap(chunks, effective_percent, ocfg) ==
    IF Len(chunks) = 1
    THEN <<CopyChunkWithOverlap(chunks[1], 0, 0, chunks[1].text)>>
    ELSE [i \in 1..Len(chunks) |-> ManagerOverlapOne(chunks, i, effective_percent, ocfg)]

(***************************************************************************)
(* State.                                                                  *)
(***************************************************************************)
(***************************************************************************)
(* Floating-point numbers.  A float is m * 2^e with an integer mantissa m  *)
(* of FloatPrecision bits (a Python float has 53); arithmetic rounds to    *)
(* the nearest float, ties to even, as IEEE 754 does.  The exponent range  *)
(* is not limited.                                                         *)
(***************************************************************************)
FloatPrecision == 6

Float(m, e) == [m |-> m, e |-> e]

FZero == Float(0, 0)

\* the float nearest to n / d, for integers n > 0 and d > 0, e the exponent so far
RECURSIVE RoundPos(_, _, _)
RoundPos(n, d, e) ==
    IF n < (2 ^ (FloatPrecision - 1)) * d THEN RoundPos(2 * n, d, e - 1)
    ELSE IF n >= (2 ^ FloatPrecision) * d THEN RoundPos(n, 2 * d, e + 1)
    ELSE LET q == n \div d
             r == n % d
             m == IF 2 * r > d \/ (2 * r = d /\ q % 2 = 1) THEN q + 1 ELSE q
         IN  IF m = 2 ^ FloatPrecision THEN Float(2 ^ (FloatPrecision - 1), e + 1)
             ELSE Float(m, e)

FNeg(x) == Float(0 - x.m, x.e)

\* the float nearest to n / d, for d > 0: the value of a literal, or of n / d
FRound(n, d) ==
    IF n = 0 THEN FZero
    ELSE IF n > 0 THEN RoundPos(n, d, 0) ELSE FNeg(RoundPos(0 - n, d, 0))

FScale(x, e) == IF x.m = 0 THEN FZero ELSE Float(x.m, x.e + e)

\* x / k for a float x and an integer k # 0
FDivInt(x, k) == FScale(FRound(IF k > 0 THEN x.m ELSE 0 - x.m, IF k > 0 THEN k ELSE 0 - k), x.e)

\* the mantissa of x when written with the exponent e <= x.e
Aligned(x, e) == x.m * 2 ^ (x.e - e)

\* x + y
FAdd(x, y) ==
    LET e == Min2(x.e, y.e)
    IN  FScale(FRound(Aligned(x, e) + Aligned(y, e), 1), e)

\* x < y
FLess(x, y) == LET e == Min2(x.e, y.e) IN Aligned(x, e) < Aligned(y, e)

(***************************************************************************)
(* BM25Index (retrieval/bm25_index.py).                                    *)
(***************************************************************************)
Range(s) == {s[i] : i \in 1..Len(s)}

\* \w for the characters of the model
IsWordChar(c) == c \in Range(LowerChars) \cup Range(UpperChars) \cup Range(DigitChars) \cup {"_"}

\* the character class [\w-]
IsTokenChar(c) == IsWordChar(c) \/ c = "-"

RECURSIVE StripHyphens(_)
StripHyphens(s) ==
    IF s = <<>> THEN s
    ELSE IF Head(s) = "-" THEN StripHyphens(Tail(s))
    ELSE IF s[Len(s)] = "-" THEN StripHyphens(SubSeq(s, 1, Len(s) - 1))
    ELSE s

\* the position after the run of [\w-] characters that starts at i
RECURSIVE TokenRunEnd(_, _)
TokenRunEnd(s, i) == IF i <= Len(s) /\ IsTokenChar(s[i]) THEN TokenRunEnd(s, i + 1) ELSE i

\* re.findall(r'\b[\w-]+\b', s) from position i: \b needs a word character at
\* both ends of a match, so each run of [\w-] gives the run without its leading
\* and trailing hyphens, if anything is left
RECURSIVE FindAllTokens(_, _)
FindAllTokens(s, i) ==
    IF i > Len(s) THEN <<>>
    ELSE IF ~IsTokenChar(s[i]) THEN FindAllTokens(s, i + 1)
    ELSE LET j == TokenRunEnd(s, i)
             tok == StripHyphens(SubSeq(s, i, j - 1))
         IN  (IF tok = <<>> THEN <<>> ELSE <<tok>>) \o FindAllTokens(s, j)

\* str.isdigit() of a non-empty token
IsDigit(t) == \A i \in 1..Len(t) : t[i] \in Range(DigitChars)

Stopwords ==
    { <<"t", "h", "e">>,
      <<"a">>,
      <<"a", "n">>,
      <<"a", "n", "d">>,
      <<"o", "r">>,
      <<"b", "u", "t">>,
      <<"i", "n">>,
      <<"o", "n">>,
      <<"a", "t">>,
      <<"t", "o">>,
      <<"f", "o", "r">>,
      <<"o", "f">>,
      <<"w", "i", "t", "h">>,
      <<"b", "y">>,
      <<"f", "r", "o", "m">>,
      <<"a", "s">>,
      <<"i", "s">>,
      <<"w", "a", "s">>,
      <<"a", "r", "e">>,
      <<"w", "e", "r", "e">>,
      <<"b", "e", "e", "n">>,
      <<"b", "e">>,
      <<"h", "a", "v", "e">>,
      <<"h", "a", "s">>,
      <<"h", "a", "d">>,
      <<"d", "o">>,
      <<"d", "o", "e", "s">>,
      <<"d", "i", "d">>,
      <<"w", "i", "l", "l">>,
      <<"w", "o", "u", "l", "d">>,
      <<"c", "o", "u", "l", "d">>,
      <<"s", "h", "o", "u", "l", "d">>,
      <<"m", "a", "y">>,
      <<"m", "i", "g", "h", "t">>,
      <<"m", "u", "s", "t">>,
      <<"t", "h", "i", "s">>,
      <<"t", "h", "a", "t">>,
      <<"t", "h", "e", "s", "e">>,
      <<"t", "h", "o", "s", "e">>,
      <<"i", "t">>,
      <<"i", "t", "s">>,
      <<"w", "e">>,
      <<"o", "u", "r">>,
      <<"t", "h", "e", "y">>,
      <<"t", "h", "e", "i", "r">>,
      <<"w", "h", "i", "c", "h">>,
      <<"w", "h", "o">>,
      <<"w", "h", "o", "m">>,
      <<"w", "h", "a", "t">>,
      <<"w", "h", "e", "r", "e">>,
      <<"w", "h", "e", "n">> }

\* the elements s[i] with keep[i], in order: [x for x in s if ...]
RECURSIVE Filter(_, _)
Filter(s, keep) ==
    IF s = <<>> THEN <<>>
    ELSE (IF Head(keep) THEN <<Head(s)>> ELSE <<>>) \o Filter(Tail(s), Tail(keep))

\* _tokenize
Tokenize(t) ==
    LET KeepToken(tok) == Len(tok) > 1 /\ ~IsDigit(tok) /\ tok \notin Stopwords
        tokens == FindAllTokens(Lower(t), 1)
    IN  Filter(tokens, [i \in 1..Len(tokens) |-> KeepToken(tokens[i])])

\* BM25Index.__init__: nothing indexed
NoIndex == [built |-> FALSE, corpus |-> <<>>]

NewBM25Index == [_index |-> NoIndex, _chunks |-> <<>>, _tokenized_corpus |-> <<>>]

\* the sum of the values of a function
RECURSIVE SumOver(_)
SumOver(f) ==
    IF DOMAIN f = {} THEN 0
    ELSE LET x == CHOOSE y \in DOMAIN f : TRUE
         IN  f[x] + SumOver([y \in (DOMAIN f) \ {x} |-> f[y]])

\* the words of a tokenized corpus
Words(corpus) == UNION {Range(corpus[i]) : i \in 1..Len(corpus)}

\* BM25Okapi (rank_bm25): nd[w], the number of documents that hold the word w
DocCount(corpus, w) == Cardinality({i \in 1..Len(corpus) : w \in Range(corpus[i])})

\* BM25Okapi: the frequency of w in a document
Frequency(doc, w) == Cardinality({j \in 1..Len(doc) : doc[j] = w})

\* 100 * ln((N - n + 0.5) / (n + 0.5)), rounded, for n of N <= 4 documents
IdfTable == << <<-110>>,
               <<0, -161>>,
               <<51, -51, -195>>,
               <<85, 0, -85, -220>> >>

\* BM25Okapi._calc_idf: is there a word to average the idf over
HasWords(corpus) == Words(corpus) # {}

\* BM25Okapi._calc_idf, in units of 1 / (400 * number of words): a negative idf is
\* replaced by epsilon (0.25) times the average idf
Idf(corpus, w) ==
    LET RawIdf(v) == IdfTable[Len(corpus)][DocCount(corpus, v)]
    IN  IF w \notin Words(corpus) THEN 0
        ELSE IF RawIdf(w) < 0 THEN SumOver([v \in Words(corpus) |-> RawIdf(v)])
        ELSE 4 * Cardinality(Words(corpus)) * RawIdf(w)

\* BM25Okapi.get_scores for document i with k1 = 1.5 and b = 0.75, the sum over
\* the query tokens of idf * f * (k1 + 1) / (f + k1 * (1 - b + b * dl / avgdl)),
\* in units of 1 / (40000 * number of words)
DocScore(corpus, query, i) ==
    LET total == SumOver([d \in 1..Len(corpus) |-> Len(corpus[d])])
        Term(q) ==
            LET f == Frequency(corpus[i], q)
            IN  (Idf(corpus, q) * 20 * f * total * 100)
                    \div (8 * f * total + 3 * total + 9 * Len(corpus[i]) * Len(corpus))
    IN  SumOver([j \in 1..Len(query) |-> Term(query[j])])

GetScores(corpus, query) == [i \in 1..Len(corpus) |-> DocScore(corpus, query, i)]

\* float(score)
ScoreFloat(corpus, score) == FRound(score, 40000 * Cardinality(Words(corpus)))

\* the variant without the guard for an empty list of chunks
BuildIndexIgnoringEmpty(index, chunks) ==
    LET corpus == [i \in 1..Len(chunks) |-> Tokenize(chunks[i].text)]
    IN  IF chunks = <<>> THEN index
        ELSE [_index |-> IF HasWords(corpus) THEN [built |-> TRUE, corpus |-> corpus]
                         ELSE index._index,
              _chunks |-> chunks,
              _tokenized_corpus |-> corpus]

\* build_index: the state of the index after the call; BM25Okapi raises
\* ZeroDivisionError on a corpus without a single token, after _chunks and
\* _tokenized_corpus have been assigned
BuildIndex(index, chunks) ==
    LET corpus == [i \in 1..Len(chunks) |-> Tokenize(chunks[i].text)]
    IN  IF chunks = <<>>
        THEN [index EXCEPT !._index = NoIndex, !._chunks = <<>>]
        ELSE [_index |-> IF HasWords(corpus) THEN [built |-> TRUE, corpus |-> corpus]
                         ELSE index._index,
              _chunks |-> chunks,
              _tokenized_corpus |-> corpus]

\* the variant that puts equal keys in the reverse of their original order
SortedDescendingTiesReversed(less) ==
    LET n == Len(less)
        Before(j, i) == less[i][j] \/ (~less[j][i] /\ j > i)
        Position(i) == 1 + Cardinality({j \in 1..n : j # i /\ Before(j, i)})
    IN  [p \in 1..n |-> CHOOSE i \in 1..n : Position(i) = p]

\* the indices 1..Len(keys) in the order sorted(..., reverse=True) gives them:
\* larger key first, equal keys in their original order
SortedDescending(less) ==
    LET n == Len(less)
        Before(j, i) == less[i][j] \/ (~less[j][i] /\ j < i)
        Position(i) == 1 + Cardinality({j \in 1..n : j # i /\ Before(j, i)})
    IN  [p \in 1..n |-> CHOOSE i \in 1..n : Position(i) = p]

\* less[i][j]: the key at index i is smaller than the key at index j
IntLess(keys) == [i \in 1..Len(keys) |-> [j \in 1..Len(keys) |-> keys[i] < keys[j]]]

FloatLess(keys) == [i \in 1..Len(keys) |-> [j \in 1..Len(keys) |-> FLess(keys[i], keys[j])]]

RetrievalResult(chunk_id, t, score, src, metadata) ==
    [chunk_id |-> chunk_id, text |-> t, score |-> score, source |-> src,
     metadata |-> metadata]

\* the outcome of a call: a returned list, or an exception
Returns(results) == [raised |-> FALSE, results |-> results]
Raises == [raised |-> TRUE, results |-> <<>>]

\* search: the returned results; IndexError when a scored document has no
\* chunk (an index kept from before a failed build_index)
Search(index, query, top_k) ==
    IF ~index._index.built \/ index._chunks = <<>> THEN Returns(<<>>)
    ELSE LET corpus == index._index.corpus
             scores == GetScores(corpus, Tokenize(query))
             top_indices == Slice(SortedDescending(IntLess(scores)), 0, top_k)
             positive == Filter(top_indices,
                                [p \in 1..Len(top_indices) |-> scores[top_indices[p]] > 0])
         IN  IF \E p \in 1..Len(positive) : positive[p] > Len(index._chunks) THEN Raises
             ELSE Returns([p \in 1..Len(positive) |->
                             LET chunk == index._chunks[positive[p]]
                             IN  RetrievalResult(chunk.id, chunk.text,
                                                 ScoreFloat(corpus, scores[positive[p]]),
                                                 "bm25", chunk.metadata)])

\* the variant that sorts self._chunks by score in place
IndexAfterSortingSearch(index, query, top_k) ==
    IF ~index._index.built \/ Len(index._chunks) # Len(index._index.corpus) THEN index
    ELSE LET order == SortedDescending(IntLess(GetScores(index._index.corpus, Tokenize(query))))
         IN  [index EXCEPT !._chunks = [p \in 1..Len(order) |-> index._chunks[order[p]]]]

\* search assigns no attribute of the index: its state after the call
IndexAfterSearch(index, query, top_k) == index

(***************************************************************************)
(* HybridRetriever (retrieval/hybrid_retriever.py).                        *)
(***************************************************************************)
HybridConfig(bm25_weight, vector_weight, top_k_bm25, top_k_vector, final_top_k, rrf_k) ==
    [bm25_weight |-> bm25_weight, vector_weight |-> vector_weight,
     top_k_bm25 |-> top_k_bm25, top_k_vector |-> top_k_vector,
     final_top_k |-> final_top_k, rrf_k |-> rrf_k]

\* the embedding of a query text, on the line the stored embeddings lie on
QueryEmbedding(query) == Len(query) % 4

Distance(a, b) == IF a >= b THEN a - b ELSE b - a

\* vector_store.query(query_texts=[query], n_results=top_k, include=[...]) of a
\* collection: the n nearest entries, nearest first, as parallel lists; a
\* collection may leave out the lists of store.omits
StoreQuery(store, query, n_results) ==
    LET entries == store.entries
        distances == [i \in 1..Len(entries) |->
                         Distance(entries[i].embedding, QueryEmbedding(query))]
        nearest == Slice(SortedDescending([i \in 1..Len(distances) |-> [j \in 1..Len(distances) |-> distances[j] < distances[i]]]), 0, n_results)
        List(field, values) == IF field \in store.omits THEN <<>> ELSE values
    IN  [ids |-> [p \in 1..Len(nearest) |-> entries[nearest[p]].id],
         documents |-> List("documents", [p \in 1..Len(nearest) |-> entries[nearest[p]].text]),
         metadatas |-> List("metadatas", [p \in 1..Len(nearest) |-> entries[nearest[p]].metadata]),
         distances |-> List("distances", [p \in 1..Len(nearest) |-> distances[nearest[p]]])]

NoMetadata == [page |-> 0]

\* _vector_search: [] without a store and when the query raises
VectorSearch(store, query, top_k) ==
    IF store.kind # "collection" THEN <<>>
    ELSE LET results == StoreQuery(store, query, top_k)
         IN  [i \in 1..Len(results.ids) |->
                 LET distance == IF i <= Len(results.distances)
                                 THEN results.distances[i] ELSE 0
                 IN  RetrievalResult(results.ids[i],
                                     IF i <= Len(results.documents)
                                     THEN results.documents[i] ELSE <<>>,
                                     FRound(1, 1 + distance),
                                     "vector",
                                     IF i <= Len(results.metadatas)
                                     THEN results.metadatas[i] ELSE NoMetadata)]

\* the variant scores[chunk_id] = ..., which forgets what the other list gave
Overwritten(score, increment) == increment

\* scores[chunk_id] += increment
Accumulated(score, increment) == FAdd(score, increment)

\* one iteration of a scoring loop of rrf_fusion: scores and chunks, as one
\* list in the insertion order of the dicts
ScoreOne(fused, result, increment) ==
    IF \E p \in 1..Len(fused) : fused[p].chunk_id = result.chunk_id
    THEN [p \in 1..Len(fused) |->
             IF fused[p].chunk_id = result.chunk_id
             THEN [fused[p] EXCEPT !.score = Accumulated(fused[p].score, increment)]
             ELSE fused[p]]
    ELSE Append(fused, [chunk_id |-> result.chunk_id,
                        score |-> Accumulated(FZero, increment),
                        chunk |-> result])

\* a scoring loop of rrf_fusion, from the 0-based rank on
RECURSIVE ScoreList(_, _, _, _, _)
ScoreList(fused, results, rank, weight, k) ==
    IF rank >= Len(results) THEN fused
    ELSE ScoreList(ScoreOne(fused, results[rank + 1], FDivInt(weight, k + rank + 1)),
                   results, rank + 1, weight, k)

\* weight / (k + rank + 1) divides by zero at some rank of the list
DividesByZero(results, k) == \E rank \in 0..(Len(results) - 1) : k + rank + 1 = 0

\* rrf_fusion
RrfFusion(cfg, bm25_results, vector_results, k) ==
    IF DividesByZero(bm25_results, k) \/ DividesByZero(vector_results, k) THEN Raises
    ELSE LET fused == ScoreList(ScoreList(<<>>, bm25_results, 0, cfg.bm25_weight, k),
                                vector_results, 0, cfg.vector_weight, k)
             sorted_ids == SortedDescending(FloatLess([p \in 1..Len(fused) |-> fused[p].score]))
         IN  Returns([p \in 1..Len(fused) |->
                        [fused[sorted_ids[p]].chunk EXCEPT
                            !.score = fused[sorted_ids[p]].score,
                            !.source = "hybrid"]])

\* top_k or self.config.final_top_k: None and 0 are both false
FinalK(cfg, top_k) == IF top_k # NoInt /\ top_k # 0 THEN top_k ELSE cfg.final_top_k

\* retrieve
Retrieve(index, store, cfg, query, top_k) ==
    LET bm25_results == Search(index, query, cfg.top_k_bm25)
        vector_results == VectorSearch(store, query, cfg.top_k_vector)
        merged == RrfFusion(cfg, bm25_results.results, vector_results, cfg.rrf_k)
    IN  IF bm25_results.raised \/ merged.raised THEN Raises
        ELSE Returns(Slice(merged.results, 0, FinalK(cfg, top_k)))

(***************************************************************************)
(* Reranker (retrieval/reranker.py).                                       *)
(***************************************************************************)
RerankConfig(enabled, diversity_threshold, relevance_threshold, max_context_tokens) ==
    [enabled |-> enabled, diversity_threshold |-> diversity_threshold,
     relevance_threshold |-> relevance_threshold,
     max_context_tokens |-> max_context_tokens]

\* the position after the run of non-whitespace characters that starts at i
RECURSIVE WordEnd(_, _)
WordEnd(s, i) == IF i <= Len(s) /\ ~IsSpace(s[i]) THEN WordEnd(s, i + 1) ELSE i

\* s.split() from position i: the maximal runs of non-whitespace characters
RECURSIVE SplitWords(_, _)
SplitWords(s, i) ==
    IF i > Len(s) THEN <<>>
    ELSE IF IsSpace(s[i]) THEN SplitWords(s, i + 1)
    ELSE <<SubSeq(s, i, WordEnd(s, i) - 1)>> \o SplitWords(s, WordEnd(s, i))

\* set(text.lower().split())
WordSet(t) == Range(SplitWords(Lower(t), 1))

\* _text_similarity
TextSimilarity(text1, text2) ==
    LET words1 == WordSet(text1)
        words2 == WordSet(text2)
        intersection == Cardinality(words1 \cap words2)
        union == Cardinality(words1 \cup words2)
    IN  IF words1 = {} \/ words2 = {} THEN FZero
        ELSE IF union > 0 THEN FRound(intersection, union) ELSE FZero

\* the variant that compares a candidate with the last selected result only
IsDiverseFromLast(result, diverse, cfg) ==
    ~FLess(cfg.diversity_threshold,
           TextSimilarity(result.text, diverse[Len(diverse)].text))

\* the variant that compares a candidate with the first selected result only
IsDiverseFromFirst(result, diverse, cfg) ==
    ~FLess(cfg.diversity_threshold, TextSimilarity(result.text, diverse[1].text))

\* _filter_diversity, the inner loop: no selected result is too similar
IsDiverse(result, diverse, cfg) ==
    \A p \in 1..Len(diverse) :
        ~FLess(cfg.diversity_threshold, TextSimilarity(result.text, diverse[p].text))

\* _filter_diversity, the outer loop from results[i] on (1-based)
RECURSIVE FilterFrom(_, _, _, _)
FilterFrom(diverse, results, i, cfg) ==
    IF i > Len(results) THEN diverse
    ELSE FilterFrom(IF IsDiverse(results[i], diverse, cfg)
                    THEN Append(diverse, results[i]) ELSE diverse,
                    results, i + 1, cfg)

\* _filter_diversity
FilterDiversity(results, cfg) ==
    IF results = <<>> THEN <<>> ELSE FilterFrom(<<results[1]>>, results, 2, cfg)

\* _limit_context, the loop from results[i] on (1-based): stops at the first
\* result that does not fit
RECURSIVE LimitFrom(_, _, _, _)
LimitFrom(results, i, total_tokens, cfg) ==
    IF i > Len(results) THEN <<>>
    ELSE LET chunk_tokens == Len(results[i].text) \div 4
         IN  IF total_tokens + chunk_tokens <= cfg.max_context_tokens
             THEN <<results[i]>> \o LimitFrom(results, i + 1, total_tokens + chunk_tokens, cfg)
             ELSE <<>>

\* the variant that skips a result over the budget and goes on with the next
RECURSIVE LimitSkipping(_, _, _, _)
LimitSkipping(results, i, total_tokens, cfg) ==
    IF i > Len(results) THEN <<>>
    ELSE LET chunk_tokens == Len(results[i].text) \div 4
         IN  IF total_tokens + chunk_tokens <= cfg.max_context_tokens
             THEN <<results[i]>>
                  \o LimitSkipping(results, i + 1, total_tokens + chunk_tokens, cfg)
             ELSE LimitSkipping(results, i + 1, total_tokens, cfg)

LimitContextSkipping(results, cfg) == LimitSkipping(results, 1, 0, cfg)

\* _limit_context
LimitContext(results, cfg) == LimitFrom(results, 1, 0, cfg)

\* what llm_client.generate does for one prompt: it answers a number, answers
\* something float() rejects, or raises
Answer(value) == [kind |-> "number", value |-> value]
Garbage == [kind |-> "garbage", value |-> 0]
Failure == [kind |-> "raises", value |-> 0]
\* the task is cancelled while the call is awaited: the await raises CancelledError
Cancelled == [kind |-> "cancelled", value |-> 0]

FMin(x, y) == IF FLess(y, x) THEN y ELSE x
FMax(x, y) == IF FLess(x, y) THEN y ELSE x

\* the variant whose default on an error is 0.0
RelevanceScoreZeroOnError(response) ==
    IF response.kind = "number"
    THEN FMin(FMax(FDivInt(FRound(response.value, 1), 10), FZero), FRound(1, 1))
    ELSE FZero

\* _get_relevance_score: float(response) / 10.0 clamped to [0, 1], 0.5 on any error
RelevanceScore(response) ==
    IF response.kind = "number"
    THEN FMin(FMax(FDivInt(FRound(response.value, 1), 10), FZero), FRound(1, 1))
    ELSE FRound(1, 2)

\* _score_relevance; responses[i] is what the client does for results[i]
ScoreRelevance(results, has_client, responses) ==
    IF ~has_client THEN results
    ELSE LET scored == [i \in 1..Len(results) |->
                           [results[i] EXCEPT !.score = RelevanceScore(responses[i])]]
             order == SortedDescending(FloatLess([i \in 1..Len(scored) |-> scored[i].score]))
         IN  [p \in 1..Len(scored) |-> scored[order[p]]]

\* rerank, the relevance filter
RelevanceFilter(scored_results, cfg) ==
    Filter(scored_results,
           [i \in 1..Len(scored_results) |->
               ~FLess(scored_results[i].score, cfg.relevance_threshold)])

\* xs[:top_k] if top_k else xs
TopK(xs, top_k) == IF top_k # NoInt /\ top_k # 0 THEN Slice(xs, 0, top_k) ELSE xs

(***************************************************************************)
(* The arguments after a call.  Each operation builds the values it        *)
(* returns from copies, so the elements of the list it was given are what  *)
(* they were; the variants write to the element itself.                    *)
(***************************************************************************)
\* _enrich_chunk: new_metadata = dict(chunk["metadata"]), and a new dict is returned
ChunkAfterEnrich(chunk, enriched_chunk) == chunk

\* _tag_batch: new_metadata = dict(chunk["metadata"]), and a new dict is appended
ChunkAfterTagging(chunk, tagged) == chunk

\* _copy_chunk_with_overlap: a new metadata dict and a new chunk dict
ChunkAfterOverlap(chunk, copied) == chunk

\* rrf_fusion: result = chunks[chunk_id].copy() before score and source are set
ResultAfterFusion(result, fused) == result

\* the variant without the copy: the score is set on the result itself
ResultScoredInPlace(result, scored) == [result EXCEPT !.score = scored.score]

\* _score_relevance: new_result = result.copy() before the score is set
ResultAfterScoring(result, scored) == result

(***************************************************************************)
(* MetadataEnricher, semantic tagging (chunking/metadata_enricher.py).     *)
(***************************************************************************)
\* the number of leading characters of s that satisfy the flags in ok
RECURSIVE RunLength(_)
RunLength(ok) ==
    IF ok = <<>> \/ ~Head(ok) THEN 0 ELSE 1 + RunLength(Tail(ok))

\* int(digits)
RECURSIVE IntOf(_)
IntOf(digits) ==
    IF digits = <<>> THEN 0
    ELSE 10 * IntOf(SubSeq(digits, 1, Len(digits) - 1))
            + ((CHOOSE d \in 1..10 : DigitChars[d] = digits[Len(digits)]) - 1)

\* re.match(r'Chunk\s*(\d+):\s*(.+)', line, re.IGNORECASE): no match, or the
\* number and the text of the two groups
MatchTagLine(line) ==
    LET NoMatch == [matched |-> FALSE, idx |-> 0, tags |-> <<>>]
        after_word == Slice(line, 5, Len(line))
        spaces == RunLength([i \in 1..Len(after_word) |-> IsSpace(after_word[i])])
        after_spaces == Slice(after_word, spaces, Len(after_word))
        n_digits == RunLength([i \in 1..Len(after_spaces) |->
                                  after_spaces[i] \in Range(DigitChars)])
        after_digits == Slice(after_spaces, n_digits, Len(after_spaces))
        after_colon == Slice(after_digits, 1, Len(after_digits))
        blanks == RunLength([i \in 1..Len(after_colon) |-> IsSpace(after_colon[i])])
        \* \s* gives back its last character when nothing is left for (.+)
        group2 == IF blanks = Len(after_colon) THEN Slice(after_colon, blanks - 1, blanks)
                  ELSE Slice(after_colon, blanks, Len(after_colon))
    IN  IF ~StartsWith(Lower(line), <<"c", "h", "u", "n", "k">>) THEN NoMatch
        ELSE IF n_digits = 0 \/ ~StartsWith(after_digits, <<":">>) THEN NoMatch
        ELSE IF after_colon = <<>> THEN NoMatch
        ELSE [matched |-> TRUE, idx |-> IntOf(Slice(after_spaces, 0, n_digits)),
              tags |-> group2]

\* _parse_tags_response: tags_map[i], the tags of the last line that names chunk i
ParseTagsResponse(response, i) ==
    LET lines == Split(response, <<NL>>)
        hits == {k \in 1..Len(lines) :
                    MatchTagLine(lines[k]).matched /\ MatchTagLine(lines[k]).idx = i}
    IN  IF hits = {} THEN <<>>
        ELSE LET parts == Split(MatchTagLine(lines[CHOOSE k \in hits : \A h \in hits : h <= k]).tags,
                                <<",">>)
             IN  [j \in 1..Len(parts) |-> Strip(parts[j])]

\* what the client does for one prompt: a text, a value that is not a string,
\* or an exception
TextResponse(t) == [kind |-> "text", text |-> t]
NotAString == [kind |-> "other", text |-> <<>>]
CallFails == [kind |-> "raises", text |-> <<>>]

\* _tag_batch with a client: response is what generate does for the batch
TagBatch(batch, response) ==
    [i \in 1..Len(batch) |->
        [batch[i] EXCEPT !.metadata.semantic_tags =
            IF response.kind = "text" THEN ParseTagsResponse(response.text, i - 1)
            ELSE <<>>]]

\* the number of batches of enrich_with_semantic_tags
BatchCount(n, batch_size) == (n + batch_size - 1) \div batch_size

RECURSIVE TagBatchesFrom(_, _, _, _)
TagBatchesFrom(chunks, batch_size, responses, b) ==
    IF (b - 1) * batch_size >= Len(chunks) THEN <<>>
    ELSE TagBatch(Slice(chunks, (b - 1) * batch_size, b * batch_size), responses[b])
            \o TagBatchesFrom(chunks, batch_size, responses, b + 1)

\* enrich_with_semantic_tags with batch_size > 0; responses[b] is what the
\* client does for batch b
EnrichWithSemanticTags(chunks, batch_size, ecfg, has_client, responses) ==
    IF ~ecfg.semantic_tagging \/ ~has_client THEN chunks
    ELSE TagBatchesFrom(chunks, batch_size, responses, 1)

\* re.search(r'\bpage\s*(\d+)\b', t, re.IGNORECASE) matching at position i (1-based):
\* the number of the group, or NoInt.  \s* and \d+ are greedy and neither can give
\* a character back to what follows.
PageMatchAt(t, i) ==
    LET after == SubSeq(t, i + 4, Len(t))
        ws == RunLength([k \in 1..Len(after) |-> IsSpace(after[k])])
        rest == SubSeq(after, ws + 1, Len(after))
        ds == RunLength([k \in 1..Len(rest) |-> rest[k] \in Range(DigitChars)])
    IN  IF /\ i + 3 <= Len(t)
           /\ Lower(SubSeq(t, i, i + 3)) = <<"p", "a", "g", "e">>
           /\ (i = 1 \/ ~IsWordChar(t[i - 1]))
           /\ ds >= 1
           /\ (ds = Len(rest) \/ ~IsWordChar(rest[ds + 1]))
        THEN IntOf(SubSeq(rest, 1, ds))
        ELSE NoInt

\* the page number written in the chunk text, 0 when there is none
PageInText(t) ==
    LET at == {i \in 1..Len(t) : PageMatchAt(t, i) # NoInt}
    IN  IF at = {} THEN 0 ELSE PageMatchAt(t, SetMin(at))

\* PDF metadata: page_map from character offsets to pages, chunk_offsets from chunk
\* ids to start offsets; a key that is missing is an empty mapping
PdfMetadata(page_map, chunk_offsets) ==
    [page_map |-> page_map, chunk_offsets |-> chunk_offsets]

\* pdf_metadata.get("chunk_offsets", {}).get(chunk["id"], 0)
ChunkStart(chunk, pdf_metadata) ==
    IF chunk.id \in DOMAIN pdf_metadata.chunk_offsets
    THEN pdf_metadata.chunk_offsets[chunk.id] ELSE 0

\* _extract_page_number: the loop over sorted(page_map.items()) returns at the first
\* offset, in ascending order, that the start offset reaches
ExtractPageNumber(chunk, pdf_metadata) ==
    LET page_map == pdf_metadata.page_map
        below == {o \in DOMAIN page_map : ChunkStart(chunk, pdf_metadata) >= o}
    IN  IF DOMAIN page_map = {} THEN PageInText(chunk.text)
        ELSE IF below = {} THEN 0
        ELSE page_map[SetMin(below)]

\* _enrich_chunk; pdf_metadata is None or a PdfMetadata
EnrichChunk(chunk, index, ecfg, pdf_metadata) ==
    [id   |-> EnrichedId(chunk, index, ecfg),
     text |-> chunk.text,
     metadata |-> [chunk.metadata EXCEPT
                      !.page = IF ecfg.extract_page_numbers /\ pdf_metadata # None
                               THEN ExtractPageNumber(chunk, pdf_metadata) ELSE @,
                      !.section = EnrichedSection(chunk)]]

\* _assign_parent_relationships: the id of the first chunk of each section
FirstOfSection(chunks, i) ==
    SetMin({j \in 1..i : chunks[j].metadata.section = chunks[i].metadata.section})

\* the variant that links each chunk to the previous chunk of its section
AssignParentToPrevious(chunks) ==
    [i \in 1..Len(chunks) |->
        [chunks[i] EXCEPT !.metadata.parent_chunk_id =
            IF FirstOfSection(chunks, i) = i THEN None
            ELSE chunks[CHOOSE j \in 1..(i - 1) :
                          /\ chunks[j].metadata.section = chunks[i].metadata.section
                          /\ \A k \in (j + 1)..(i - 1) :
                                chunks[k].metadata.section # chunks[i].metadata.section].id]]

AssignParentRelationships(chunks) ==
    [i \in 1..Len(chunks) |->
        [chunks[i] EXCEPT !.metadata.parent_chunk_id =
            IF FirstOfSection(chunks, i) = i THEN None
            ELSE chunks[FirstOfSection(chunks, i)].id]]

\* enrich
Enrich(chunks, ecfg, pdf_metadata) ==
    LET enriched == [i \in 1..Len(chunks) |->
                        EnrichChunk(chunks[i], i - 1, ecfg, pdf_metadata)]
    IN  IF ecfg.hierarchical_ids THEN AssignParentRelationships(enriched) ELSE enriched

VARIABLES
    pc,                  \* position of the run: which step comes next
    text,                \* chunk(): the text argument
    source,              \* chunk(): the source argument
    config,              \* SemanticChunker.config
    enricher_config,     \* MetadataEnricher.config
    pdf_metadata,        \* enrich(): the pdf_metadata argument, or None
    raw_chunks,          \* chunk(): raw_chunks
    chunks_with_overlap, \* chunk(): chunks_with_overlap
    chunks,              \* chunk(): the returned list of Chunk
    enriched,            \* enrich(): the returned list of Chunk
    run,                 \* number of the chunk-and-enrich run on this input (1 or 2)
    prev_ids,            \* the chunk IDs of the previous run on this input: those
                         \* chunk() returned (provisional), those enrich() returned
    om_config,           \* OverlapManager.config
    om_percent,          \* apply_overlap(): the overlap_percent argument, or None
    om_chunks,           \* apply_overlap(): the chunks argument
    om_result,           \* apply_overlap(): the returned list
    bm25,                \* BM25Index: _index, _chunks, _tokenized_corpus
    vector_store,        \* HybridRetriever.vector_store
    hybrid_config,       \* HybridRetriever.config
    history,             \* the last two retrieve() calls since the index or the
                         \* store last changed: arguments, outcome, index state
    fusion_log,          \* the last two rrf_fusion() calls: arguments and outcome
    latest,              \* the chunks argument of the last build_index() call, if any
    search_log,          \* the last BM25Index.search() call since the last
                         \* build_index(): arguments and outcome, or None
    ctor,                \* the constructor call made: the component, whether its
                         \* index dependency was there, whether it raised; or None
    rr_config,           \* Reranker.config
    rr_client,           \* Reranker.llm_client is set
    rr_results,          \* rerank(): the results argument
    rr_top_k,            \* rerank(): the top_k argument, or None
    rr_scored,           \* rerank(): scored_results
    rr_filtered,         \* rerank(): filtered
    rr_diverse,          \* rerank(): diverse_results
    rr_out,              \* rerank(): the returned list
    rr_responses,        \* what llm_client.generate did for the successive candidates
    rr_calls,            \* rerank(): number of llm_client.generate calls made
    tag_config,          \* MetadataEnricher.config of the tagging enricher
    tag_client,          \* MetadataEnricher.llm_client is set
    tag_chunks,          \* enrich_with_semantic_tags(): the chunks argument
    tag_batch_size,      \* enrich_with_semantic_tags(): the batch_size argument
    tag_responses,       \* what llm_client.generate does for the successive batches
    tag_result,          \* enrich_with_semantic_tags(): the returned list
    state,               \* the workflow graph: the ScholarState of the run
    executed,            \* the workflow graph: the nodes entered so far, in order
    react_history,       \* research(): history, as a sequence of tokens
    react_log,           \* research(): for each llm.generate call made, the response
                         \* and whether rag.query was called for it
    react_out            \* research(): the returned text, or None

chunkVars == <<text, source, config, enricher_config, pdf_metadata, raw_chunks, chunks_with_overlap,
               chunks, enriched, run, prev_ids>>
omVars == <<om_config, om_percent, om_chunks, om_result>>
retrVars == <<bm25, vector_store, hybrid_config, history, fusion_log, latest, search_log,
              ctor>>
tagVars == <<tag_config, tag_client, tag_chunks, tag_batch_size, tag_responses, tag_result>>
rerankVars == <<rr_config, rr_client, rr_results, rr_top_k, rr_scored, rr_filtered,
                rr_diverse, rr_out, rr_responses, rr_calls, tagVars>>
agentVars == <<state, executed, react_history, react_log, react_out>>
vars == <<pc, chunkVars, omVars, retrVars, rerankVars, agentVars>>

(***************************************************************************)
(* Inputs.                                                                 *)
(***************************************************************************)
\* every text of at most n characters over the alphabet A
TextsOver(A, n) == UNION {[1..k -> A] : k \in 0..n}

Repeat(c, n) == [i \in 1..n |-> c]

RECURSIVE Join(_, _)
Join(parts, sep) ==
    IF Len(parts) = 0 THEN <<>>
    ELSE IF Len(parts) = 1 THEN parts[1]
    ELSE parts[1] \o sep \o Join(Tail(parts), sep)

\* lines of a paper: two headings, prose with a sentence and a clause boundary,
\* a line the enricher's keyword heuristics recognise, and an empty line
PaperLines == { <<"S", "u", "m", "m", "a", "r", "y">>,
                <<"f", "i", "n", "d", "i", "n", "g", "s", " ", "a">>,
                <<"a", "a", ".", " ", "a", ",", " ", "a">>,
                <<"t", "a", "b", "l", "e">>,
                <<>> }

\* papers of one to three lines
PaperTexts == {Join(ls, <<NL>>) : ls \in UNION {[1..k -> PaperLines] : k \in 1..3}}

SmallTexts == TextsOver({"a", " ", NL}, MaxTextLen)

SmallConfigs == { ChunkConfig(3, 34, 3, TRUE),
                  ChunkConfig(4, 50, 2, TRUE),
                  ChunkConfig(3, 0, 1, FALSE) }

PaperConfigs == { ChunkConfig(12, 25, 4, FALSE) }

\* the configuration of the 2500-character scenario: the dataclass defaults
DefaultConfig ==
    ChunkConfig(DefaultChunkSize, DefaultOverlapPercent, DefaultMinChunkSize, TRUE)

\* a single-paragraph text of 2500 characters: letter runs of the given lengths
\* joined by sep, then padded with letters
ScenarioText(lens, sep) ==
    LET body == Join([i \in 1..Len(lens) |-> Repeat("a", lens[i])], sep)
    IN  IF Len(body) >= 2500 THEN SubSeq(body, 1, 2500)
        ELSE body \o sep \o Repeat("a", 2500 - Len(body) - Len(sep))

ScenarioTexts ==
    { Repeat("a", 2500),
      ScenarioText(Repeat(99, 24), <<" ">>),
      ScenarioText(<<623, 623, 623>>, <<".", " ">>),
      ScenarioText(<<700, 795, 950>>, <<".", " ">>),
      ScenarioText(<<950, 40, 950>>, <<",", " ">>) }

Sources == { <<"d", "o", "c">> }

\* uuid4().hex[:8] of the successive chunks of one run: the draws are independent;
\* three streams of them, over two token values
TokenStreams(n) == { [i \in 1..n |-> "t1"], [i \in 1..n |-> "t2"],
                     [i \in 1..n |-> IF i % 2 = 1 THEN "t1" ELSE "t2"] }

MaxOmTextLen == 4

OmTexts == TextsOver({"a", " "}, MaxOmTextLen) \ {<<>>}

OmConfigs == { OverlapConfig(20, 50, 500), OverlapConfig(50, 0, 5), OverlapConfig(20, 1, 2) }

\* a chunk as SemanticChunker emits it, before any overlap is recorded
PlainChunk(t, i) ==
    [id   |-> ProvisionalId(<<"d", "o", "c">>, "body", i, "t1"),
     text |-> t,
     metadata |-> [source |-> <<"d", "o", "c">>, page |-> 0, section |-> "body",
                   chunk_index |-> i, parent_chunk_id |-> None,
                   overlap_with_prev |-> 0, overlap_with_next |-> 0,
                   semantic_tags |-> <<>>]]

OmInputs ==
    {[i \in 1..Len(ts) |-> PlainChunk(ts[i], i - 1)] :
        ts \in UNION {[1..k -> OmTexts] : k \in 1..2}}

(***************************************************************************)
(* Chunking: SemanticChunker.chunk, MetadataEnricher.enrich and            *)
(* OverlapManager.apply_overlap, each run on one input.                    *)
(***************************************************************************)
ChunkIdle ==
    /\ text = <<>> /\ source = <<>> /\ config = None /\ enricher_config = None
    /\ pdf_metadata = None
    /\ raw_chunks = <<>> /\ chunks_with_overlap = <<>> /\ chunks = <<>> /\ enriched = <<>>
    /\ run = 0 /\ prev_ids = None

OmIdle ==
    /\ om_config = None /\ om_percent = NoInt /\ om_chunks = <<>> /\ om_result = <<>>

RetrIdle ==
    /\ bm25 = NewBM25Index /\ vector_store = None /\ hybrid_config = None
    /\ history = <<>> /\ fusion_log = <<>>
    /\ latest = <<>> /\ search_log = None /\ ctor = None

TagIdle ==
    /\ tag_config = None /\ tag_client = FALSE /\ tag_chunks = <<>> /\ tag_batch_size = 0
    /\ tag_responses = <<>> /\ tag_result = <<>>

RerankIdle ==
    /\ rr_config = None /\ rr_client = FALSE /\ rr_results = <<>> /\ rr_top_k = NoInt
    /\ rr_scored = <<>> /\ rr_filtered = <<>> /\ rr_diverse = <<>> /\ rr_out = <<>>
    /\ rr_responses = <<>> /\ rr_calls = 0
    /\ TagIdle

AgentIdle ==
    /\ state = None /\ executed = <<>>
    /\ react_history = <<>> /\ react_log = <<>> /\ react_out = None

ChunkerInit ==
    /\ pc = "start"
    /\ \/ text \in SmallTexts /\ config \in SmallConfigs
       \/ text \in PaperTexts /\ config \in SmallConfigs \cup PaperConfigs
       \/ text \in ScenarioTexts /\ config = DefaultConfig
    /\ source \in Sources
    /\ enricher_config = EnricherConfig(FALSE, TRUE, TRUE)
    /\ pdf_metadata = None
    /\ raw_chunks = <<>> /\ chunks_with_overlap = <<>> /\ chunks = <<>> /\ enriched = <<>>
    /\ run = 1 /\ prev_ids = None
    /\ OmIdle /\ RetrIdle /\ RerankIdle /\ AgentIdle

ManagerInit ==
    /\ pc = "om_start"
    /\ om_config \in OmConfigs
    /\ om_percent \in {NoInt, 100}
    /\ om_chunks \in OmInputs
    /\ om_result = <<>>
    /\ ChunkIdle /\ RetrIdle /\ RerankIdle /\ AgentIdle

ChunkInit == ChunkerInit \/ ManagerInit

\* chunk(), the guard: empty or whitespace-only text returns []
ChunkEmpty ==
    /\ pc = "start"
    /\ Strip(text) = <<>>
    /\ chunks' = <<>>
    /\ pc' = "chunked"
    /\ UNCHANGED <<agentVars, text, source, config, enricher_config, pdf_metadata, raw_chunks, chunks_with_overlap,
                   enriched, run, prev_ids, omVars, retrVars, rerankVars>>

\* chunk(), steps 1 and 2: detect sections and split within them
ChunkSplit ==
    /\ pc = "start"
    /\ Strip(text) # <<>>
    /\ raw_chunks' = RawChunks(text, config)
    /\ pc' = "split"
    /\ UNCHANGED <<agentVars, text, source, config, enricher_config, pdf_metadata, chunks_with_overlap, chunks,
                   enriched, run, prev_ids, omVars, retrVars, rerankVars>>

\* chunk(), step 3: apply overlap
ChunkOverlap ==
    /\ pc = "split"
    /\ chunks_with_overlap' = ApplyOverlap(raw_chunks, config)
    /\ pc' = "overlapped"
    /\ UNCHANGED <<agentVars, text, source, config, enricher_config, pdf_metadata, raw_chunks, chunks,
                   enriched, run, prev_ids, omVars, retrVars, rerankVars>>

\* chunk(), step 4: create the Chunk objects, each with a fresh random token
ChunkCreate ==
    /\ pc = "overlapped"
    /\ \E tokens \in TokenStreams(Len(chunks_with_overlap)) :
          chunks' = CreateChunks(chunks_with_overlap, source, tokens)
    /\ pc' = "chunked"
    /\ UNCHANGED <<agentVars, text, source, config, enricher_config, pdf_metadata, raw_chunks, chunks_with_overlap,
                   enriched, run, prev_ids, omVars, retrVars, rerankVars>>

\* MetadataEnricher.enrich on the chunks chunk() returned
EnrichStep ==
    /\ pc = "chunked"
    /\ enriched' = Enrich(chunks, enricher_config, pdf_metadata)
    /\ chunks' = [i \in 1..Len(chunks) |->
                     ChunkAfterEnrich(chunks[i], EnrichChunk(chunks[i], i - 1, enricher_config,
                                                             pdf_metadata))]
    /\ pc' = "enriched"
    /\ UNCHANGED <<agentVars, text, source, config, enricher_config, pdf_metadata, raw_chunks,
                   chunks_with_overlap, run, prev_ids, omVars, retrVars, rerankVars>>

Ids(cs) == [i \in 1..Len(cs) |-> cs[i].id]

\* the caller re-chunks and re-enriches the same text with the same configuration
Rerun ==
    /\ pc = "enriched"
    /\ run = 1
    /\ prev_ids' = [final |-> Ids(enriched), provisional |-> Ids(chunks)]
    /\ run' = 2
    /\ raw_chunks' = <<>> /\ chunks_with_overlap' = <<>> /\ chunks' = <<>> /\ enriched' = <<>>
    /\ pc' = "start"
    /\ UNCHANGED <<agentVars, text, source, config, enricher_config, pdf_metadata, omVars, retrVars, rerankVars>>

\* OverlapManager.apply_overlap
ManagerApply ==
    /\ pc = "om_start"
    /\ om_result' = ManagerApplyOverlap(om_chunks,
                                        IF om_percent # NoInt THEN om_percent
                                        ELSE om_config.overlap_percent,
                                        om_config)
    /\ om_chunks' = [i \in 1..Len(om_chunks) |->
                        ChunkAfterOverlap(om_chunks[i], om_result'[i])]
    /\ pc' = "om_done"
    /\ UNCHANGED <<agentVars, chunkVars, om_config, om_percent, retrVars, rerankVars>>

ChunkNext ==
    \/ ChunkEmpty
    \/ ChunkSplit
    \/ ChunkOverlap
    \/ ChunkCreate
    \/ EnrichStep
    \/ Rerun
    \/ ManagerApply

SpecChunk == ChunkInit /\ [][ChunkNext]_vars

(***************************************************************************)
(* Retrieval: BM25Index.build_index, HybridRetriever.retrieve and          *)
(* HybridRetriever.rrf_fusion, called on one retriever.                    *)
(***************************************************************************)
IndexedChunk(id, t, page) == [id |-> id, text |-> t, metadata |-> [page |-> page]]

ChunkA == IndexedChunk("A", <<"T", "h", "e", " ", "c", "a", "t", " ", "s", "a", "t", " ", "o", "n", " ", "t", "h", "e", " ", "m", "a", "t">>, 1)
ChunkB == IndexedChunk("B", <<"D", "o", "g", "s", " ", "b", "a", "r", "k", " ", "a", "t", " ", "n", "i", "g", "h", "t">>, 1)
ChunkC == IndexedChunk("C", <<"c", "a", "t", " ", "c", "a", "t", " ", "d", "o", "g", "s">>, 2)
\* a chunk of stopwords and numbers: _tokenize leaves nothing of it
ChunkD == IndexedChunk("D", <<"t", "h", "e", " ", "o", "f", " ", "4", "2">>, 2)
\* the text of A under another id
ChunkE == IndexedChunk("E", ChunkA.text, 3)

Corpora == { <<>>, <<ChunkA, ChunkB>>, <<ChunkA, ChunkB, ChunkC>>,
             <<ChunkC, ChunkA, ChunkB, ChunkE>>, <<ChunkD>> }

Queries == { <<"c", "a", "t">>, <<"T", "h", "e", " ", "d", "o", "g", "s", " ", "b", "a", "r", "k">> }

TopKs == {NoInt, 0, 1}

StoreEntry(chunk, embedding) ==
    [id |-> chunk.id, text |-> chunk.text, metadata |-> chunk.metadata,
     embedding |-> embedding]

\* no vector store, a collection whose query raises, and two collections
NoStore == [kind |-> "none", entries |-> <<>>, omits |-> {}]

Stores ==
    { NoStore,
      [kind |-> "raises", entries |-> <<>>, omits |-> {}],
      [kind |-> "collection",
       entries |-> <<StoreEntry(ChunkB, 1), StoreEntry(ChunkA, 3), StoreEntry(ChunkC, 0)>>,
       omits |-> {}],
      [kind |-> "collection",
       entries |-> <<StoreEntry(ChunkA, 2), StoreEntry(ChunkD, 2)>>,
       omits |-> {"documents", "metadatas", "distances"}] }

\* the dataclass defaults, and a configuration with small limits
HybridConfigs ==
    { HybridConfig(FRound(3, 10), FRound(7, 10), 20, 20, 10, 60),
      HybridConfig(FRound(1, 1), FRound(1, 1), 1, 2, 2, 0) }

\* weights of the default, of equal and of very different magnitude, with
\* rrf_k below, at and above zero
FusionConfigs ==
    { HybridConfig(w[1], w[2], 20, 20, 10, k) :
        w \in { <<FRound(3, 10), FRound(7, 10)>>, <<FRound(1, 1), FRound(1, 1)>>,
                <<FRound(1, 1), FRound(1, 256)>> },
        k \in {0 - 2, 0 - 1, 0, 60} }

\* the result lists of two chunks a search of the given kind can return
FusionLists(kind) ==
    LET R(chunk, n) ==
            RetrievalResult(chunk.id, chunk.text, FRound(n, 4), kind,
                            IF kind = "bm25" THEN chunk.metadata ELSE [page |-> 2])
    IN  { <<>>, <<R(ChunkA, 3)>>, <<R(ChunkA, 3), R(ChunkB, 2)>>,
          <<R(ChunkB, 3), R(ChunkA, 2)>> }

RetrieverInit ==
    /\ pc = "retriever"
    /\ bm25 = NewBM25Index
    /\ vector_store \in Stores
    /\ hybrid_config \in HybridConfigs
    /\ history = <<>> /\ fusion_log = <<>>
    /\ latest = <<>> /\ search_log = None /\ ctor = None
    /\ ChunkIdle /\ OmIdle /\ RerankIdle /\ AgentIdle

FusionInit ==
    /\ pc = "fusion"
    /\ bm25 = NewBM25Index
    /\ vector_store = NoStore
    /\ hybrid_config \in FusionConfigs
    /\ history = <<>> /\ fusion_log = <<>>
    /\ latest = <<>> /\ search_log = None /\ ctor = None
    /\ ChunkIdle /\ OmIdle /\ RerankIdle /\ AgentIdle

RetrieveInit == RetrieverInit \/ FusionInit

\* the last two entries of a log
Last2(log) == IF Len(log) > 2 THEN Tail(log) ELSE log

\* bm25_index.build_index(chunks)
IndexBuild ==
    /\ pc = "retriever"
    /\ \E cs \in Corpora : bm25' = BuildIndex(bm25, cs)
    /\ history' = <<>>
    /\ UNCHANGED <<agentVars, pc, vector_store, hybrid_config, fusion_log, latest, search_log, ctor,
                   chunkVars, omVars, rerankVars>>

\* the vector store is replaced or its collection changes
StoreChange ==
    /\ pc = "retriever"
    /\ \E st \in Stores \ {vector_store} : vector_store' = st
    /\ history' = <<>>
    /\ UNCHANGED <<agentVars, pc, bm25, hybrid_config, fusion_log, latest, search_log, ctor,
                   chunkVars, omVars, rerankVars>>

\* retriever.retrieve(query, top_k)
RetrieveCall ==
    /\ pc = "retriever"
    /\ \E query \in Queries, top_k \in TopKs :
          /\ bm25' = IndexAfterSearch(bm25, query, hybrid_config.top_k_bm25)
          /\ history' = Last2(Append(history,
                            [query |-> query, top_k |-> top_k,
                             outcome |-> Retrieve(bm25, vector_store, hybrid_config,
                                                  query, top_k),
                             index_before |-> bm25,
                             index_after |-> bm25']))
    /\ UNCHANGED <<agentVars, pc, vector_store, hybrid_config, fusion_log, latest, search_log, ctor,
                   chunkVars, omVars, rerankVars>>

\* retriever.rrf_fusion(bm25_results, vector_results, k=config.rrf_k)
FuseCall ==
    /\ pc = "fusion"
    /\ \E b \in FusionLists("bm25"), v \in FusionLists("vector") :
          LET outcome == RrfFusion(hybrid_config, b, v, hybrid_config.rrf_k)
              After(results) ==
                  [i \in 1..Len(results) |->
                      IF \E p \in 1..Len(outcome.results) :
                            outcome.results[p].chunk_id = results[i].chunk_id
                      THEN ResultAfterFusion(results[i],
                               outcome.results[CHOOSE p \in 1..Len(outcome.results) :
                                   outcome.results[p].chunk_id = results[i].chunk_id])
                      ELSE results[i]]
          IN  fusion_log' = Last2(Append(fusion_log,
                                  [bm25_results |-> b, vector_results |-> v,
                                   outcome |-> outcome,
                                   bm25_after |-> After(b), vector_after |-> After(v)]))
    /\ UNCHANGED <<agentVars, pc, bm25, vector_store, hybrid_config, history, latest, search_log, ctor,
                   chunkVars, omVars, rerankVars>>

RetrieveNext ==
    \/ IndexBuild
    \/ StoreChange
    \/ RetrieveCall
    \/ FuseCall

SpecRetrieve == RetrieveInit /\ [][RetrieveNext]_vars

(***************************************************************************)
(* The lexical index alone: BM25Index.build_index and BM25Index.search,    *)
(* called on one index.                                                    *)
(***************************************************************************)
\* the top_k argument of search: small limits and the default
SearchTopKs == {0, 1, 2, 10}

\* the queries of the retriever, a query of two words of different chunks and a
\* query _tokenize leaves nothing of
SearchQueries ==
    Queries \cup { <<"m", "a", "t", " ", "n", "i", "g", "h", "t">>, <<"t", "h", "e">> }

IndexInit ==
    /\ pc = "index"
    /\ bm25 = NewBM25Index
    /\ vector_store = None /\ hybrid_config = None
    /\ history = <<>> /\ fusion_log = <<>>
    /\ latest = <<>> /\ search_log = None /\ ctor = None
    /\ ChunkIdle /\ OmIdle /\ RerankIdle /\ AgentIdle

\* index.build_index(chunks), returning or raising
IndexRebuild ==
    /\ pc = "index"
    /\ \E cs \in Corpora :
          /\ bm25' = BuildIndex(bm25, cs)
          /\ latest' = <<cs>>
    /\ search_log' = None
    /\ UNCHANGED <<agentVars, pc, vector_store, hybrid_config, history, fusion_log, ctor,
                   chunkVars, omVars, rerankVars>>

\* index.search(query, top_k)
SearchCall ==
    /\ pc = "index"
    /\ \E query \in SearchQueries, top_k \in SearchTopKs :
          /\ search_log' = [query |-> query, top_k |-> top_k,
                            outcome |-> Search(bm25, query, top_k)]
          /\ bm25' = IndexAfterSearch(bm25, query, top_k)
    /\ UNCHANGED <<agentVars, pc, vector_store, hybrid_config, history, fusion_log, latest, ctor,
                   chunkVars, omVars, rerankVars>>

IndexNext ==
    \/ IndexRebuild
    \/ SearchCall

SpecIndex == IndexInit /\ [][IndexNext]_vars

(***************************************************************************)
(* Data errors: chunk() and enrich() on short texts, and the lexical index. *)
(***************************************************************************)
DataInit ==
    \/ ChunkerInit /\ (text \in SmallTexts \/ text \in PaperTexts) /\ config \in SmallConfigs
    \/ IndexInit

DataNext ==
    \/ ChunkEmpty
    \/ ChunkSplit
    \/ ChunkOverlap
    \/ ChunkCreate
    \/ EnrichStep
    \/ IndexRebuild
    \/ SearchCall

SpecData == DataInit /\ [][DataNext]_vars

(***************************************************************************)
(* Reranking: Reranker.rerank on one list of results.                      *)
(***************************************************************************)
RerankTexts == { <<"a", " ", "b", " ", "c">>, <<"a", " ", "b", " ", "c", " ", "d">>, <<"A", " ", " ", "b", " ", "C">>, <<"x", " ", "y">>, <<" ">> }

\* four texts that share eight of their nine words, and a text of other words
NearDuplicates == << <<"a", " ", "b", " ", "c", " ", "d", " ", "e", " ", "f", " ", "g", " ", "h", " ", "p">>, <<"a", " ", "b", " ", "c", " ", "d", " ", "e", " ", "f", " ", "g", " ", "h", " ", "q">>, <<"a", " ", "b", " ", "c", " ", "d", " ", "e", " ", "f", " ", "g", " ", "h", " ", "r">>, <<"a", " ", "b", " ", "c", " ", "d", " ", "e", " ", "f", " ", "g", " ", "h", " ", "s">> >>

DistinctText == <<"x", " ", "y", " ", "z">>

\* five results: the distinct text at position d, the near-duplicates around it
ScenarioTextsAt(d) ==
    [i \in 1..5 |-> IF i = d THEN DistinctText
                    ELSE NearDuplicates[IF i < d THEN i ELSE i - 1]]

\* texts of 2, 2 and 1 estimated tokens with no word in common, in three orders
BudgetTexts ==
    LET two == <<"p", " ", "q", " ", "r", " ", "s", " ", "t">>
        deux == <<"u", " ", "v", " ", "w", " ", "x", " ", "y", "y">>
        one == <<"a", " ", "b", " ", "c">>
    IN  { <<two, deux, one>>, <<one, two, deux>>, <<two, one, deux>> }

RerankInputTexts ==
    {<<>>} \cup UNION {[1..n -> RerankTexts] : n \in 1..3}
           \cup {ScenarioTextsAt(d) : d \in 1..5}
           \cup BudgetTexts

ChunkIds == <<"c1", "c2", "c3", "c4", "c5">>

\* the scores retrieval gave: all high, or high and low in turn
InputScores == { [i \in 1..5 |-> FRound(9, 10)],
                 [i \in 1..5 |-> IF i % 2 = 1 THEN FRound(9, 10) ELSE FRound(1, 60)] }

RerankInputs ==
    { [i \in 1..Len(ts) |-> RetrievalResult(ChunkIds[i], ts[i], sc[i], "hybrid", NoMetadata)] :
        ts \in RerankInputTexts, sc \in InputScores }

\* the dataclass defaults, a configuration with a small context budget, and
\* reranking disabled
RerankConfigs ==
    { RerankConfig(TRUE, FRound(7, 10), FRound(1, 2), 4000),
      RerankConfig(TRUE, FRound(1, 2), FZero, 3),
      RerankConfig(FALSE, FRound(7, 10), FRound(1, 2), 4000) }

\* what the client does for the successive candidates of one rerank call
ResponseStreams(n) ==
    LET cycle == <<Answer(10), Answer(0), Garbage, Failure, Answer(15)>>
    IN  { [i \in 1..n |-> Answer(7)],
          [i \in 1..n |-> cycle[((i - 1) % 5) + 1]],
          [i \in 1..n |-> cycle[((i + 1) % 5) + 1]] }

RerankInit ==
    /\ pc = "rr_start"
    /\ rr_config \in RerankConfigs
    /\ rr_client \in BOOLEAN
    /\ rr_results \in RerankInputs
    /\ rr_top_k \in {NoInt, 0, 2}
    /\ rr_scored = <<>> /\ rr_filtered = <<>> /\ rr_diverse = <<>> /\ rr_out = <<>>
    /\ rr_responses = <<>> /\ rr_calls = 0
    /\ TagIdle /\ ChunkIdle /\ OmIdle /\ RetrIdle /\ AgentIdle

\* rerank: disabled or nothing to rerank
RerankSkip ==
    /\ pc = "rr_start"
    /\ ~rr_config.enabled \/ rr_results = <<>>
    /\ rr_out' = TopK(rr_results, rr_top_k)
    /\ pc' = "rr_done"
    /\ UNCHANGED <<agentVars, rr_responses, rr_calls, rr_config, rr_client, rr_results, rr_top_k,
                   rr_scored, rr_filtered,
                   rr_diverse, tagVars, chunkVars, omVars, retrVars>>

\* rerank: score each result for relevance
RerankScore ==
    /\ pc = "rr_start"
    /\ rr_config.enabled /\ rr_results # <<>>
    /\ \E responses \in ResponseStreams(Len(rr_results)) :
          /\ rr_scored' = ScoreRelevance(rr_results, rr_client, responses)
          /\ rr_responses' = IF rr_client THEN responses ELSE <<>>
          /\ rr_results' =
                IF rr_client
                THEN [i \in 1..Len(rr_results) |->
                         ResultAfterScoring(rr_results[i],
                             [rr_results[i] EXCEPT !.score = RelevanceScore(responses[i])])]
                ELSE rr_results
    /\ rr_calls' = IF rr_client THEN Len(rr_results) ELSE 0
    /\ pc' = "rr_scored"
    /\ UNCHANGED <<agentVars, rr_config, rr_client, rr_top_k, rr_filtered, rr_diverse,
                   rr_out, tagVars, chunkVars, omVars, retrVars>>

\* rerank: filter by the relevance threshold
RerankFilter ==
    /\ pc = "rr_scored"
    /\ rr_filtered' = RelevanceFilter(rr_scored, rr_config)
    /\ pc' = "rr_filtered"
    /\ UNCHANGED <<agentVars, rr_responses, rr_calls, rr_config, rr_client, rr_results, rr_top_k,
                   rr_scored, rr_diverse,
                   rr_out, tagVars, chunkVars, omVars, retrVars>>

\* rerank, cancelled while the generate call for candidate k is awaited:
\* CancelledError is no Exception, so it passes the except clauses of
\* _get_relevance_score and _score_relevance and leaves rerank
RerankCancel ==
    /\ pc = "rr_start"
    /\ rr_config.enabled /\ rr_results # <<>> /\ rr_client
    /\ \E responses \in ResponseStreams(Len(rr_results)), k \in 1..Len(rr_results) :
          /\ rr_responses' = Append(SubSeq(responses, 1, k - 1), Cancelled)
          /\ rr_calls' = k
          /\ rr_results' =
                [i \in 1..Len(rr_results) |->
                    IF i < k
                    THEN ResultAfterScoring(rr_results[i],
                             [rr_results[i] EXCEPT !.score = RelevanceScore(responses[i])])
                    ELSE rr_results[i]]
    /\ pc' = "rr_raised"
    /\ UNCHANGED <<agentVars, rr_config, rr_client, rr_top_k, rr_scored, rr_filtered,
                   rr_diverse, rr_out, tagVars, chunkVars, omVars, retrVars>>

\* rerank: apply the diversity filter
RerankDiversity ==
    /\ pc = "rr_filtered"
    /\ rr_diverse' = FilterDiversity(rr_filtered, rr_config)
    /\ pc' = "rr_diverse"
    /\ UNCHANGED <<agentVars, rr_responses, rr_calls, rr_config, rr_client, rr_results, rr_top_k,
                   rr_scored, rr_filtered,
                   rr_out, tagVars, chunkVars, omVars, retrVars>>

\* rerank: limit to the context window and return
RerankReturn ==
    /\ pc = "rr_diverse"
    /\ rr_out' = TopK(LimitContext(rr_diverse, rr_config), rr_top_k)
    /\ pc' = "rr_done"
    /\ UNCHANGED <<agentVars, rr_responses, rr_calls, rr_config, rr_client, rr_results, rr_top_k,
                   rr_scored, rr_filtered,
                   rr_diverse, tagVars, chunkVars, omVars, retrVars>>

\* the chunks given to the tagging enricher
TagInputs == {[i \in 1..n |-> PlainChunk(<<"t">>, i - 1)] : n \in 0..3}

\* what the client does for one batch: tags for chunks 0 and 1, a line for chunk
\* 1 only, a call that raises, a response that is not a string
TagResponses ==
    { TextResponse(<<"C", "h", "u", "n", "k", " ", "0", ":", " ", "x", ",", " ", "y", NL,
                     "C", "h", "u", "n", "k", " ", "1", ":", " ", "z">>),
      TextResponse(<<"c", "h", "u", "n", "k", "1", ":", "q">>),
      CallFails,
      NotAString }

TagInit ==
    /\ pc = "tag_start"
    /\ tag_config \in {EnricherConfig(st, TRUE, TRUE) : st \in BOOLEAN}
    /\ tag_client \in BOOLEAN
    /\ tag_chunks \in TagInputs
    /\ tag_batch_size \in {1, 2, 5}
    /\ tag_responses \in [1..BatchCount(Len(tag_chunks), tag_batch_size) -> TagResponses]
    /\ tag_result = <<>>
    /\ rr_config = None /\ rr_client = FALSE /\ rr_results = <<>> /\ rr_top_k = NoInt
    /\ rr_scored = <<>> /\ rr_filtered = <<>> /\ rr_diverse = <<>> /\ rr_out = <<>>
    /\ rr_responses = <<>> /\ rr_calls = 0
    /\ ChunkIdle /\ OmIdle /\ RetrIdle /\ AgentIdle

\* enricher.enrich_with_semantic_tags(chunks, batch_size)
TagCall ==
    /\ pc = "tag_start"
    /\ tag_result' = EnrichWithSemanticTags(tag_chunks, tag_batch_size, tag_config,
                                            tag_client, tag_responses)
    /\ tag_chunks' = [i \in 1..Len(tag_chunks) |->
                         ChunkAfterTagging(tag_chunks[i], tag_result'[i])]
    /\ pc' = "tag_done"
    /\ UNCHANGED <<agentVars, tag_config, tag_client, tag_batch_size, tag_responses,
                   rr_config, rr_client, rr_results, rr_top_k, rr_scored, rr_filtered,
                   rr_diverse, rr_out, rr_responses, rr_calls, chunkVars, omVars, retrVars>>

RerankNext ==
    \/ TagCall
    \/ RerankSkip
    \/ RerankScore
    \/ RerankCancel
    \/ RerankFilter
    \/ RerankDiversity
    \/ RerankReturn

SpecRerank == (RerankInit \/ TagInit) /\ [][RerankNext]_vars

(***************************************************************************)
(* Construction: BM25Index, HybridRetriever and Reranker are constructed   *)
(* and used for the first time.                                            *)
(***************************************************************************)
\* configurations a caller can pass: the defaults, and negative weights
CandidateHybridConfigs ==
    { HybridConfig(w[1], w[2], 20, 20, 10, 60) :
        w \in { <<FRound(3, 10), FRound(7, 10)>>, <<FRound(0 - 3, 10), FRound(7, 10)>>,
                <<FRound(1, 1), FRound(0 - 1, 1)>> } }

\* the defaults, and thresholds outside [0, 1]
CandidateRerankConfigs ==
    { RerankConfig(TRUE, t[1], t[2], 4000) :
        t \in { <<FRound(7, 10), FRound(1, 2)>>, <<FRound(3, 2), FRound(1, 2)>>,
                <<FRound(7, 10), FRound(0 - 1, 2)>> } }

ConstructInit ==
    /\ pc = "construct"
    /\ ChunkIdle /\ OmIdle /\ RetrIdle /\ RerankIdle /\ AgentIdle

\* BM25Index(): raises ImportError when rank_bm25 could not be imported
NewIndex ==
    /\ pc = "construct"
    /\ \E importable \in BOOLEAN :
          ctor' = [component |-> "BM25Index", dependency |-> importable,
                   raised |-> ~importable]
    /\ pc' = "constructed"
    /\ UNCHANGED <<agentVars, bm25, vector_store, hybrid_config, history, fusion_log, latest,
                   search_log, chunkVars, omVars, rerankVars>>

\* HybridRetriever(bm25_index, vector_store, config), bm25_index an index or None
NewRetriever ==
    /\ pc = "construct"
    /\ \E has_index \in BOOLEAN, st \in Stores, cfg \in CandidateHybridConfigs :
          /\ vector_store' = st
          /\ hybrid_config' = cfg
          /\ ctor' = [component |-> "HybridRetriever", dependency |-> has_index,
                      raised |-> FALSE]
    /\ pc' = "constructed"
    /\ UNCHANGED <<agentVars, bm25, history, fusion_log, latest, search_log, chunkVars, omVars,
                   rerankVars>>

\* Reranker(llm_client=None, config)
NewReranker ==
    /\ pc = "construct"
    /\ \E cfg \in CandidateRerankConfigs : rr_config' = cfg
    /\ ctor' = [component |-> "Reranker", dependency |-> TRUE, raised |-> FALSE]
    /\ pc' = "constructed"
    /\ UNCHANGED <<agentVars, bm25, vector_store, hybrid_config, history, fusion_log, latest,
                   search_log, chunkVars, omVars, rr_client, rr_results, rr_top_k,
                   rr_scored, rr_filtered, rr_diverse, rr_out, rr_responses, rr_calls,
                   tagVars>>

\* the first retriever.retrieve(query): AttributeError when bm25_index is None
FirstRetrieve ==
    /\ pc = "constructed"
    /\ ctor.component = "HybridRetriever"
    /\ \E query \in Queries, top_k \in TopKs :
          history' = <<[query |-> query, top_k |-> top_k,
                        outcome |-> IF ctor.dependency
                                    THEN Retrieve(bm25, vector_store, hybrid_config,
                                                  query, top_k)
                                    ELSE Raises,
                        index_before |-> bm25, index_after |-> bm25]>>
    /\ pc' = "used"
    /\ UNCHANGED <<agentVars, bm25, vector_store, hybrid_config, fusion_log, latest, search_log,
                   ctor, chunkVars, omVars, rerankVars>>

\* the first reranker.rerank(results, query)
FirstRerank ==
    /\ pc = "constructed"
    /\ ctor.component = "Reranker"
    /\ \E results \in {rs \in RerankInputs : Len(rs) <= 2} :
          /\ rr_results' = results
          /\ rr_scored' = ScoreRelevance(results, rr_client, <<>>)
    /\ rr_filtered' = RelevanceFilter(rr_scored', rr_config)
    /\ rr_diverse' = FilterDiversity(rr_filtered', rr_config)
    /\ rr_out' = TopK(LimitContext(rr_diverse', rr_config), rr_top_k)
    /\ pc' = "used"
    /\ UNCHANGED <<agentVars, rr_config, rr_client, rr_top_k, rr_responses, rr_calls, tagVars,
                   chunkVars, omVars, retrVars>>

ConstructNext ==
    \/ NewIndex
    \/ NewRetriever
    \/ NewReranker
    \/ FirstRetrieve
    \/ FirstRerank

SpecConstruct == ConstructInit /\ [][ConstructNext]_vars

(***************************************************************************)
(* The enricher on chunks of several sections, with PDF metadata.         *)
(***************************************************************************)
EnrichTexts == { <<"a">>,
                 <<"t", "a", "b", "l", "e">>,
                 <<"s", "e", "e", " ", "p", "a", "g", "e", " ", "2">>,
                 <<"P", "a", "g", "e", "1", "2", "b", " ", "p", "a", "g", "e", " ", "3", ".">> }

\* the (text, section, overlap_prev, overlap_next) tuples the chunks are made from
EnrichData ==
    { [text |-> t, section |-> sec, overlap_prev |-> 0, overlap_next |-> 0] :
        t \in EnrichTexts, sec \in {"body", "results"} }

EnrichInputs ==
    { CreateChunks(ds, <<"d", "o", "c">>, [i \in 1..Len(ds) |-> "t1"]) :
        ds \in UNION {[1..n -> EnrichData] : n \in 0..3} }

\* page boundaries: none, every 5 characters from 0, from 5, a single one at 10
PageMaps == { <<>>, (0 :> 1) @@ (5 :> 2) @@ (10 :> 3), (5 :> 1) @@ (10 :> 2), (10 :> 4) }

\* start offsets: none recorded, or 6 characters per chunk
OffsetMaps(cs) ==
    { <<>>, [id \in {cs[i].id : i \in 1..Len(cs)} |->
                6 * (CHOOSE i \in 1..Len(cs) : cs[i].id = id) - 6] }

EnrichInit ==
    /\ pc = "chunked"
    /\ chunks \in EnrichInputs
    /\ enricher_config \in {EnricherConfig(FALSE, hi, ep) : hi, ep \in BOOLEAN}
    /\ \/ pdf_metadata = None
       \/ \E pm \in PageMaps, co \in OffsetMaps(chunks) : pdf_metadata = PdfMetadata(pm, co)
    /\ text = <<>> /\ source = <<"d", "o", "c">> /\ config = None
    /\ raw_chunks = <<>> /\ chunks_with_overlap = <<>> /\ enriched = <<>>
    /\ run = 1 /\ prev_ids = None
    /\ OmIdle /\ RetrIdle /\ RerankIdle /\ AgentIdle

SpecEnrich == EnrichInit /\ [][EnrichStep]_vars

(***************************************************************************)
(* The five operations that take a list of chunks or of results.           *)
(***************************************************************************)
FrameInit ==
    \/ EnrichInit
    \/ TagInit
    \/ ManagerInit
    \/ FusionInit /\ hybrid_config.rrf_k = 60
    \/ RerankInit

FrameNext ==
    \/ EnrichStep
    \/ TagCall
    \/ ManagerApply
    \/ FuseCall
    \/ RerankSkip
    \/ RerankScore
    \/ RerankCancel
    \/ RerankFilter
    \/ RerankDiversity
    \/ RerankReturn

SpecFrame == FrameInit /\ [][FrameNext]_vars

(***************************************************************************)
(* ReactResearcherAgent.research (agents/react_researcher.py).  A text is  *)
(* a sequence of tokens: the two markers, a space, a line break, a word.   *)
(***************************************************************************)
FINAL_REPORT == "FINAL REPORT:"
QUERY == "QUERY:"

\* the variant with one more turn of the loop
max_steps_plus_one == 6 + 1

\* max_steps = 6
max_steps == 6

\* history[-500:], in tokens
HistoryTail == 500

\* marker in text
HasToken(t, marker) == \E i \in 1..Len(t) : t[i] = marker

\* text.split(marker, 1)[1], for a text that holds the marker
AfterFirst(t, marker) ==
    LET first == SetMin({i \in 1..Len(t) : t[i] = marker})
    IN  SubSeq(t, first + 1, Len(t))

\* clean_response.split("FINAL REPORT:", 1)[1].strip()
ReportText(clean_response) == Strip(AfterFirst(clean_response, FINAL_REPORT))

\* .* of the pattern: up to the end of the line
RECURSIVE RestOfLine(_)
RestOfLine(t) ==
    IF t = <<>> \/ Head(t) = NL THEN <<>> ELSE <<Head(t)>> \o RestOfLine(Tail(t))

\* re.search(r"QUERY:\s*(.*)", clean_response).group(1).split("\n")[0].strip()
QueryTerm(clean_response) ==
    Strip(RestOfLine(LStrip(AfterFirst(clean_response, QUERY))))

\* the variant that looks for a query before it looks for the report
ActQueryFirst(clean_response) ==
    IF HasToken(clean_response, QUERY) THEN "query"
    ELSE IF HasToken(clean_response, FINAL_REPORT) THEN "return"
    ELSE "nudge"

\* research, "# 2. Act": what the loop does with a response
Act(clean_response) ==
    IF HasToken(clean_response, FINAL_REPORT) THEN "return"
    ELSE IF HasToken(clean_response, QUERY) THEN "query"
    ELSE "nudge"

\* history = f"Target Paper: {paper_title}\n\n"
InitialHistory(paper_title) == <<"Target Paper:", " ", paper_title, NL, NL>>

\* history += f"\n{clean_response}\n"
HistoryWithResponse(h, clean_response) == h \o <<NL>> \o clean_response \o <<NL>>

\* history += f"\n{observation}\n" with observation = f"OBSERVATION: {tool_result}"
HistoryWithObservation(h, tool_result) ==
    h \o <<NL, "OBSERVATION:", " ">> \o tool_result \o <<NL>>

\* history += "\nOBSERVATION: Please use a QUERY or provide FINAL REPORT.\n"
HistoryWithNudge(h) ==
    h \o <<NL, "OBSERVATION:", " ", "Please use a QUERY or provide FINAL REPORT.", NL>>

\* return "Research incomplete. " + history[-500:]
Incomplete(h) ==
    <<"Research incomplete. ">> \o SubSeq(h, Max2(1, Len(h) - HistoryTail + 1), Len(h))

\* what GeminiClient.generate returns: "" when the model call raised
ReactResponses ==
    { <<>>,
      <<"THOUGHT:", " ", "m", NL, "ACTION:", " ", QUERY, " ", "bleu", " ", NL, "x">>,
      <<" ", "THOUGHT:", " ", "m", NL, FINAL_REPORT, " ", "s", NL>>,
      <<QUERY, NL, "bleu", NL, FINAL_REPORT, "s", FINAL_REPORT, "t">> }

\* what RagEngine.query returns: "" when it raised or found nothing
ToolResults == { <<>>, <<"[Page 1]", " ", "d">> }

ResearchInit ==
    /\ pc = "research"
    /\ state = None /\ executed = <<>>
    /\ react_history = InitialHistory("p")
    /\ react_log = <<>>
    /\ react_out = None
    /\ ChunkIdle /\ OmIdle /\ RetrIdle /\ RerankIdle

\* research, one turn of the loop: "# 1. Think" and "# 2. Act"
ResearchStep ==
    /\ pc = "research"
    /\ Len(react_log) < max_steps
    /\ \E response \in ReactResponses, tool_result \in ToolResults :
         LET clean_response == Strip(response)
             h == HistoryWithResponse(react_history, clean_response)
             todo == Act(clean_response)
         IN  \/ /\ todo = "return"
                /\ tool_result = <<>>
                /\ react_log' = Append(react_log, [response |-> clean_response,
                                                   queries |-> <<>>])
                /\ react_history' = h
                /\ react_out' = [text |-> ReportText(clean_response)]
                /\ pc' = "researched"
             \/ /\ todo = "query"
                /\ react_log' = Append(react_log, [response |-> clean_response,
                                                   queries |-> <<QueryTerm(clean_response)>>])
                /\ react_history' = HistoryWithObservation(h, tool_result)
                /\ UNCHANGED <<pc, react_out>>
             \/ /\ todo = "nudge"
                /\ tool_result = <<>>
                /\ react_log' = Append(react_log, [response |-> clean_response,
                                                   queries |-> <<>>])
                /\ react_history' = HistoryWithNudge(h)
                /\ UNCHANGED <<pc, react_out>>
    /\ UNCHANGED <<state, executed, chunkVars, omVars, retrVars, rerankVars>>

\* research, "# Fallback if loop ends"
ResearchFallback ==
    /\ pc = "research"
    /\ Len(react_log) >= max_steps
    /\ react_out' = [text |-> Incomplete(react_history)]
    /\ pc' = "researched"
    /\ UNCHANGED <<state, executed, react_history, react_log,
                   chunkVars, omVars, retrVars, rerankVars>>

ResearchNext ==
    \/ ResearchStep
    \/ ResearchFallback

SpecResearch == ResearchInit /\ [][ResearchNext]_vars

\* the event loop resumes the coroutine after each awaited call returns
SpecResearchLive == SpecResearch /\ WF_vars(ResearchNext)

(***************************************************************************)
(* The workflow graph (agents/graph.py) and what its nodes call.           *)
(***************************************************************************)
\* a JSON value, as json.loads gives it: a dict or a list; a string in it is a
\* sequence of tokens, as every text of the run is
JsonDict(items) == [type |-> "dict", items |-> items]
JsonList == [type |-> "list", items |-> <<>>]

\* d.get(key, default)
Get(d, key, default) == IF key \in DOMAIN d.items THEN d.items[key] ELSE default

\* a language-model answer: the JSON text alone, the JSON text in a markdown
\* fence, the JSON text inside a sentence, a sentence without JSON; and "",
\* which GeminiClient.generate returns when the model call raised
JsonAnswer(form, value) == [form |-> form, value |-> value]
NoJsonAnswer == JsonAnswer("empty", JsonDict(<<>>))

\* utils/json_parser.py extract_json: the value parsed from the whole text, from
\* the text without its fences, or from the first "{" to the last "}"; {} when
\* all three fail.  The value of the first two steps need not be a dict.
ExtractJson(answer) ==
    CASE answer.form = "plain" -> answer.value
      [] answer.form = "fenced" -> answer.value
      [] answer.form = "embedded" ->
            IF answer.value.type = "dict" THEN answer.value ELSE JsonDict(<<>>)
      [] OTHER -> JsonDict(<<>>)

\* WebsiteAnalysisAgent.analyze: the fallback when nothing was scraped, else
\* what extract_json makes of the answer
Analyze(website_text, answer) ==
    IF website_text = ""
    THEN JsonDict([niche |-> <<"Artificial Intelligence & Technology">>,
                   brand_voice |-> <<"Professional and Innovative">>])
    ELSE ExtractJson(answer)

\* PaperFilterAgent.filter_papers, from papers[i] on: a paper is kept when its
\* evaluation is a dict with a true is_relevant; evaluation.get on another value
\* raises inside the try, and the paper is left out
RECURSIVE FilterPapersFrom(_, _, _)
FilterPapersFrom(papers, answers, i) ==
    IF i > Len(papers) THEN <<>>
    ELSE LET evaluation == ExtractJson(answers[i])
             rest == FilterPapersFrom(papers, answers, i + 1)
         IN  IF evaluation.type = "dict" /\ Get(evaluation, "is_relevant", FALSE)
             THEN <<[evaluation |-> evaluation] @@ papers[i]>> \o rest
             ELSE rest

FilterPapers(papers, answers) == FilterPapersFrom(papers, answers, 1)

\* langgraph's END
END == "END"

\* route_after_filter
route_after_filter(st) ==
    IF st.best_paper = None THEN "end"
    ELSE IF st.mode = "deep" THEN "deep_dive"
    ELSE "simplify"

\* workflow.add_edge and workflow.add_conditional_edges: the node after a node
NodeAfter(node, st) ==
    CASE node = "analyze_website" -> "search_arxiv"
      [] node = "search_arxiv" -> "filter_papers"
      [] node = "filter_papers" ->
            (CASE route_after_filter(st) = "deep_dive" -> "deep_dive"
               [] route_after_filter(st) = "simplify" -> "simplify_paper"
               [] route_after_filter(st) = "end" -> END)
      [] node = "deep_dive" -> "simplify_paper"
      [] node = "simplify_paper" -> "write_blog"
      [] node = "write_blog" -> END

\* the inputs of a run: main.py gives the url alone, server.py the url and a mode
Modes == {"", "fast", "deep"}

Paper(n) == [title |-> <<"t", n>>, abstract |-> <<"a", n>>, url |-> <<"u", n>>]
SearchResults == { <<>>, <<Paper(1)>>, <<Paper(1), Paper(2)>> }

AnalysisAnswers ==
    { NoJsonAnswer,
      JsonAnswer("fenced", JsonDict([niche |-> <<"n">>, brand_voice |-> <<"v">>])),
      JsonAnswer("plain", JsonDict([error |-> <<"e">>])),
      JsonAnswer("plain", JsonList) }

FilterAnswers ==
    { NoJsonAnswer,
      JsonAnswer("plain", JsonDict([is_relevant |-> TRUE])),
      JsonAnswer("embedded", JsonDict([is_relevant |-> FALSE])),
      JsonAnswer("fenced", JsonList) }

SimplifyAnswers ==
    { NoJsonAnswer,
      JsonAnswer("embedded", JsonDict([main_discovery |-> <<"d">>])),
      JsonAnswer("embedded", JsonList),
      JsonAnswer("plain", JsonList) }

\* what GeminiClient.generate returns for the blog: "" when the model call raised
BlogTexts == { <<>>, <<"blog">> }

GraphInit ==
    /\ pc = "analyze_website"
    /\ \E mode \in Modes :
          state = [url |-> "u", mode |-> mode, niche |-> None, brand_voice |-> None,
                   raw_papers |-> <<>>, best_paper |-> None, insight |-> None,
                   rag_context |-> <<>>, final_blog |-> None]
    /\ executed = <<>>
    /\ react_history = <<>> /\ react_log = <<>> /\ react_out = None
    /\ ChunkIdle /\ OmIdle /\ RetrIdle /\ RerankIdle

\* node analyze_website: result.get on a value that is not a dict raises
AnalyzeWebsite ==
    /\ pc = "analyze_website"
    /\ executed' = Append(executed, "analyze_website")
    /\ \E website_text \in {"", "w"}, answer \in AnalysisAnswers :
          LET analysis == Analyze(website_text, answer)
          IN  IF analysis.type = "dict"
              THEN /\ state' = [state EXCEPT
                                  !.niche = Get(analysis, "niche", <<"Technology">>),
                                  !.brand_voice = Get(analysis, "brand_voice", <<"Professional">>)]
                   /\ pc' = NodeAfter("analyze_website", state')
              ELSE /\ pc' = "raised"
                   /\ UNCHANGED state
    /\ UNCHANGED <<react_history, react_log, react_out,
                   chunkVars, omVars, retrVars, rerankVars>>

\* node search_arxiv: search_papers returns the papers found, [] on an error
SearchArxiv ==
    /\ pc = "search_arxiv"
    /\ executed' = Append(executed, "search_arxiv")
    /\ \E papers \in SearchResults : state' = [state EXCEPT !.raw_papers = papers]
    /\ pc' = NodeAfter("search_arxiv", state')
    /\ UNCHANGED <<react_history, react_log, react_out,
                   chunkVars, omVars, retrVars, rerankVars>>

\* node filter_papers: best_paper = valid_papers[0] if valid_papers else None
FilterPapersNode ==
    /\ pc = "filter_papers"
    /\ executed' = Append(executed, "filter_papers")
    /\ \E answers \in [1..Len(state.raw_papers) -> FilterAnswers] :
          LET valid_papers == FilterPapers(state.raw_papers, answers)
          IN  state' = [state EXCEPT
                          !.best_paper = IF valid_papers # <<>> THEN valid_papers[1]
                                         ELSE None]
    /\ pc' = NodeAfter("filter_papers", state')
    /\ UNCHANGED <<react_history, react_log, react_out,
                   chunkVars, omVars, retrVars, rerankVars>>

\* node deep_dive, up to the call of research: returns early when the PDF could
\* not be downloaded or ingested
DeepDive ==
    /\ pc = "deep_dive"
    /\ executed' = Append(executed, "deep_dive")
    /\ \E path \in {"", "pdf"}, collection_name \in {"", "paper_pdf"} :
          IF path = ""
          THEN /\ collection_name = ""
               /\ state' = [state EXCEPT !.rag_context = <<"Could not download PDF.">>]
               /\ pc' = NodeAfter("deep_dive", state')
               /\ UNCHANGED <<react_history, react_log, react_out>>
          ELSE IF collection_name = ""
          THEN /\ state' = [state EXCEPT !.rag_context = <<"Could not ingest PDF.">>]
               /\ pc' = NodeAfter("deep_dive", state')
               /\ UNCHANGED <<react_history, react_log, react_out>>
          ELSE /\ react_history' = InitialHistory(state.best_paper.title)
               /\ react_log' = <<>>
               /\ react_out' = None
               /\ pc' = "research"
               /\ UNCHANGED state
    /\ UNCHANGED <<chunkVars, omVars, retrVars, rerankVars>>

\* node deep_dive, after research returned: return {"rag_context": context}
DeepDiveReturn ==
    /\ pc = "researched"
    /\ state # None
    /\ state' = [state EXCEPT !.rag_context = react_out.text]
    /\ pc' = NodeAfter("deep_dive", state')
    /\ UNCHANGED <<executed, react_history, react_log, react_out,
                   chunkVars, omVars, retrVars, rerankVars>>

\* node simplify_paper: the insight is what extract_json made of the answer
SimplifyPaper ==
    /\ pc = "simplify_paper"
    /\ executed' = Append(executed, "simplify_paper")
    /\ \E answer \in SimplifyAnswers : state' = [state EXCEPT !.insight = ExtractJson(answer)]
    /\ pc' = NodeAfter("simplify_paper", state')
    /\ UNCHANGED <<react_history, react_log, react_out,
                   chunkVars, omVars, retrVars, rerankVars>>

\* node write_blog: WriterAgent.write_blog calls insight.get, which raises on a
\* value that is not a dict
WriteBlog ==
    /\ pc = "write_blog"
    /\ executed' = Append(executed, "write_blog")
    /\ IF state.insight.type = "dict"
       THEN /\ \E blog \in BlogTexts : state' = [state EXCEPT !.final_blog = blog]
            /\ pc' = NodeAfter("write_blog", state')
       ELSE /\ pc' = "raised"
            /\ UNCHANGED state
    /\ UNCHANGED <<react_history, react_log, react_out,
                   chunkVars, omVars, retrVars, rerankVars>>

GraphNext ==
    \/ AnalyzeWebsite
    \/ SearchArxiv
    \/ FilterPapersNode
    \/ DeepDive
    \/ ResearchStep
    \/ ResearchFallback
    \/ DeepDiveReturn
    \/ SimplifyPaper
    \/ WriteBlog

SpecGraph == GraphInit /\ [][GraphNext]_vars

\* the graph runner calls the next node as long as there is one, and the event
\* loop resumes a node after each awaited call returns
SpecGraphLive == SpecGraph /\ WF_vars(GraphNext)

(***************************************************************************)
(* Properties of chunking.                                                 *)
(***************************************************************************)
\* _recursive_split reaches its hard-split fallback for the whole text: no
\* separator yields a multi-part split that merges into chunks
HardSplitFallback(t, cfg) ==
    /\ Len(t) > cfg.chunk_size
    /\ \A k \in 1..Len(Separators) :
          Len(Split(t, Separators[k])) > 1
              => MergeSplits(Split(t, Separators[k]), Separators[k], "body", cfg) = <<>>

NoSections == ~config.section_detection \/ DetectSections(text) = <<>>

\* C1: with chunk_size >= min_chunk_size every raw chunk (before the overlap is
\* prepended) is at most chunk_size long, and the chunks of the hard-split
\* fallback are exactly chunk_size long, except possibly the last.
C1_RawChunksBounded ==
    (pc = "split" /\ config.chunk_size >= config.min_chunk_size) =>
        /\ \A i \in 1..Len(raw_chunks) : Len(raw_chunks[i].text) <= config.chunk_size
        /\ (NoSections /\ HardSplitFallback(text, config)) =>
              \A i \in 1..(Len(raw_chunks) - 1) :
                  Len(raw_chunks[i].text) = config.chunk_size

\* C2: the chunk_index values of the chunks one chunk() call returns are
\* 0, 1, ..., N-1 in emission order.
C2_ChunkIndexIsPosition ==
    pc = "chunked" =>
        \A i \in 1..Len(chunks) : chunks[i].metadata.chunk_index = i - 1

C2_Witness == pc = "chunked" /\ Len(chunks) >= 3

\* what was put in front of the original text to obtain the new text (without
\* the joining " "), None when nothing was
Prefixed(new_text, original) ==
    IF Len(new_text) > Len(original)
    THEN SubSeq(new_text, 1, Len(new_text) - Len(original) - 1)
    ELSE None

\* the overlap invariant of SemanticChunker._apply_overlap on chunk i > 1
ChunkerOverlapIsSuffix(i) ==
    /\ chunks_with_overlap[i].overlap_prev <= Len(raw_chunks[i - 1].text)
    /\ EndsWith(raw_chunks[i - 1].text,
                Prefixed(chunks_with_overlap[i].text, raw_chunks[i].text))

HalfBounded(earlier, later) ==
    /\ 2 * earlier.metadata.overlap_with_next <= Len(earlier.text)
    /\ 2 * earlier.metadata.overlap_with_next <= Len(later.text)
    /\ 2 * later.metadata.overlap_with_prev <= Len(earlier.text)
    /\ 2 * later.metadata.overlap_with_prev <= Len(later.text)

\* C4: for adjacent chunks of a chunking run, overlap_with_next of the earlier
\* and overlap_with_prev of the later never exceed half the length of the
\* earlier chunk's text nor half the length of the later chunk's text.
C4_OverlapAtMostHalf ==
    /\ pc = "chunked" =>
          \A i \in 2..Len(chunks) : HalfBounded(chunks[i - 1], chunks[i])
    /\ pc = "om_done" =>
          \A i \in 2..Len(om_result) : HalfBounded(om_result[i - 1], om_result[i])

\* C5: chunking and enriching the same text, source and configuration twice
\* yields the same sequence of chunk IDs, whatever random tokens the two runs
\* drew for the provisional IDs.
C5_HierarchicalIdsRepeat ==
    (pc = "enriched" /\ run = 2 /\ enricher_config.hierarchical_ids) =>
        Ids(enriched) = prev_ids.final

\* the second run ended on several chunks whose provisional IDs differ from the
\* first run's
C5_Witness ==
    /\ pc = "enriched" /\ run = 2
    /\ Len(enriched) >= 2
    /\ Ids(chunks) # prev_ids.provisional

\* C6: a single-paragraph text of 2500 characters chunked with chunk_size=1000
\* and overlap_percent=20 gives exactly 3 chunks, each at most 1000 characters
\* plus the prepended overlap (and its joining space), with strictly
\* increasing chunk_index.
C6_Scenario2500 ==
    (/\ pc = "chunked"
     /\ Len(text) = 2500
     /\ ~Contains(text, <<NL, NL>>)
     /\ config.chunk_size = 1000 /\ config.overlap_percent = 20) =>
        /\ Len(chunks) = 3
        /\ \A i \in 1..Len(chunks) :
              Len(chunks[i].text) <= 1000 + chunks[i].metadata.overlap_with_prev + 1
        /\ \A i \in 2..Len(chunks) :
              chunks[i - 1].metadata.chunk_index < chunks[i].metadata.chunk_index

(***************************************************************************)
(* Properties of retrieval.                                                *)
(***************************************************************************)
Calls(log) == {log[i] : i \in 1..Len(log)}

\* the chunk (if any) at rank 0 of both lists of an rrf_fusion call
AtRank0InBoth(call) ==
    IF /\ call.bm25_results # <<>> /\ call.vector_results # <<>>
       /\ call.bm25_results[1].chunk_id = call.vector_results[1].chunk_id
    THEN {call.bm25_results[1].chunk_id} ELSE {}

ChunkIdsOf(results) == {results[i].chunk_id : i \in 1..Len(results)}

\* the chunks at rank 0 of one list of an rrf_fusion call and absent from the other
AtRank0InOneOnly(call) ==
    (IF call.bm25_results # <<>> THEN {call.bm25_results[1].chunk_id} \ ChunkIdsOf(call.vector_results)
     ELSE {})
    \cup
    (IF call.vector_results # <<>> THEN {call.vector_results[1].chunk_id} \ ChunkIdsOf(call.bm25_results)
     ELSE {})

\* the fused score rrf_fusion returned for a chunk
FusedScore(call, id) ==
    LET rs == call.outcome.results
    IN  rs[CHOOSE p \in 1..Len(rs) : rs[p].chunk_id = id].score

ComparableWeights(cfg) ==
    /\ ~FLess(FScale(cfg.bm25_weight, FloatPrecision - 2), cfg.vector_weight)
    /\ ~FLess(FScale(cfg.vector_weight, FloatPrecision - 2), cfg.bm25_weight)

C9_AtMostTopK ==
    pc = "retriever" =>
        \A c \in Calls(history) :
            ~c.outcome.raised =>
                Len(c.outcome.results) <=
                    IF c.top_k = NoInt THEN hybrid_config.final_top_k ELSE c.top_k

(***************************************************************************)
(* Properties of reranking.                                                *)
(***************************************************************************)
\* the Jaccard similarity of the lowercase word sets of two texts, intersection
\* over union as a float, exceeds the threshold
TooSimilar(text1, text2, threshold) ==
    LET shared == Cardinality(WordSet(text1) \cap WordSet(text2))
        all == Cardinality(WordSet(text1) \cup WordSet(text2))
    IN  all > 0 /\ FLess(threshold, FRound(shared, all))

KeptIds == {rr_diverse[i].chunk_id : i \in 1..Len(rr_diverse)}

\* positions of the filter's input whose texts are pairwise near-duplicates
NearDuplicateSets ==
    {D \in SUBSET (1..Len(rr_filtered)) :
        /\ Cardinality(D) >= 2
        /\ \A i \in D, j \in D :
              i # j => TooSimilar(rr_filtered[i].text, rr_filtered[j].text,
                                  rr_config.diversity_threshold)}

\* C10: any two results the diversity filter kept have a Jaccard similarity of
\* at most diversity_threshold; hence of results that are pairwise
\* near-duplicates at most 2 are kept.
C10_KeptAreDiverse ==
    pc \in {"rr_diverse", "rr_done"} =>
        /\ \A i \in 1..Len(rr_diverse), j \in 1..Len(rr_diverse) :
              i # j => ~TooSimilar(rr_diverse[i].text, rr_diverse[j].text,
                                   rr_config.diversity_threshold)
        /\ \A D \in NearDuplicateSets :
              Cardinality({i \in D : rr_filtered[i].chunk_id \in KeptIds}) <= 2

\* five results were filtered, four of them pairwise near-duplicates, and the
\* filter kept one of these along with the distinct one
C10_Witness ==
    /\ pc = "rr_diverse"
    /\ Len(rr_filtered) = 5
    /\ \E D \in NearDuplicateSets : Cardinality(D) = 4
    /\ Len(rr_diverse) = 2


(***************************************************************************)
(* Properties of the lexical index.                                        *)
(***************************************************************************)
\* a search was made since the last build_index
Searched == search_log # None

CatQuery == <<"c", "a", "t">>

\* C11: after build_index over "The cat sat on the mat" (A) and "Dogs bark at
\* night" (B), search("cat") returns A first with a strictly positive score;
\* on an index holding no chunks search("cat") returns the empty list.
C11_CatFindsA ==
    (Searched /\ search_log.query = CatQuery /\ search_log.top_k >= 1) =>
        /\ latest = << <<ChunkA, ChunkB>> >> =>
              /\ ~search_log.outcome.raised
              /\ search_log.outcome.results # <<>>
              /\ search_log.outcome.results[1].chunk_id = "A"
              /\ FLess(FZero, search_log.outcome.results[1].score)
        /\ latest \in {<<>>, << <<>> >>} => search_log.outcome = Returns(<<>>)

\* C12: after any sequence of build_index calls every result of search is a
\* chunk of the most recent build_index argument, and search returns [] before
\* the first build and after build_index([]).
C12_ResultsOfLatestBuild ==
    Searched =>
        /\ ~search_log.outcome.raised
        /\ \A p \in 1..Len(search_log.outcome.results) :
              \E i \in 1..Len(latest[1]) :
                  /\ latest[1][i].id = search_log.outcome.results[p].chunk_id
                  /\ latest[1][i].text = search_log.outcome.results[p].text
        /\ latest \in {<<>>, << <<>> >>} => search_log.outcome.results = <<>>

\* the position in the last build_index argument of the chunk of a result
BuildPosition(result) ==
    CHOOSE i \in 1..Len(latest[1]) : latest[1][i].id = result.chunk_id

\* C13: search(query, top_k) with a top_k >= 0 returns at most top_k results,
\* each with a score > 0, in non-increasing order of score, results of equal
\* score in the order of their chunks in the list given to build_index.
C13_SearchOrder ==
    (Searched /\ ~search_log.outcome.raised) =>
        LET rs == search_log.outcome.results
        IN  /\ Len(rs) <= search_log.top_k
            /\ \A p \in 1..Len(rs) : FLess(FZero, rs[p].score)
            /\ \A p \in 1..Len(rs), q \in 1..Len(rs) :
                  p < q => /\ ~FLess(rs[p].score, rs[q].score)
                           /\ rs[p].score = rs[q].score
                                  => BuildPosition(rs[p]) < BuildPosition(rs[q])

\* a search returned three results, the last two of equal score, and the same
\* search limited to two results returned the first two of them
C13_Witness ==
    /\ Searched /\ ~search_log.outcome.raised
    /\ search_log.top_k = 10
    /\ Len(search_log.outcome.results) = 3
    /\ search_log.outcome.results[2].score = search_log.outcome.results[3].score
    /\ Search(bm25, search_log.query, 2).results
           = SubSeq(search_log.outcome.results, 1, 2)


(***************************************************************************)
(* Properties of the reranker and of semantic tagging.                     *)
(***************************************************************************)
\* xs[:top_k] for a top_k that is given, xs when none is
FirstTopK(xs, top_k) == IF top_k = NoInt THEN xs ELSE Slice(xs, 0, top_k)

\* C14: when reranking is disabled or the input list is empty, rerank makes no
\* collaborator call and returns the input results, content and order
\* unchanged, truncated to the first top_k elements whenever a top_k is given.
C14_PassThrough ==
    (pc = "rr_done" /\ (~rr_config.enabled \/ rr_results = <<>>)) =>
        /\ rr_calls = 0
        /\ rr_out = FirstTopK(rr_results, rr_top_k)

Half == FRound(1, 2)

\* the batch (1-based) of the chunk at position i (1-based)
BatchOf(i) == ((i - 1) \div tag_batch_size) + 1

\* C15: a candidate whose relevance call or response parsing fails gets the
\* score 0.5 and every other candidate its own score; a batch whose tagging
\* call or response parsing fails gets empty tag lists and every other batch
\* its own tags; every item is returned.
C15_FailuresGetDefaults ==
    /\ (pc = "rr_scored" /\ rr_client) =>
          /\ Len(rr_scored) = Len(rr_results)
          /\ \A i \in 1..Len(rr_results) :
                \E p \in 1..Len(rr_scored) :
                    /\ rr_scored[p].chunk_id = rr_results[i].chunk_id
                    /\ rr_scored[p].text = rr_results[i].text
                    /\ rr_responses[i].kind # "number" => rr_scored[p].score = Half
                    /\ (rr_responses[i].kind = "number" /\ rr_responses[i].value \in 0..10)
                          => rr_scored[p].score = FDivInt(FRound(rr_responses[i].value, 1), 10)
    /\ (pc = "tag_done" /\ tag_config.semantic_tagging /\ tag_client) =>
          /\ Len(tag_result) = Len(tag_chunks)
          /\ \A i \in 1..Len(tag_chunks) :
                /\ tag_result[i].id = tag_chunks[i].id
                /\ tag_result[i].text = tag_chunks[i].text
                /\ tag_responses[BatchOf(i)].kind # "text"
                      => tag_result[i].metadata.semantic_tags = <<>>
                /\ tag_responses[BatchOf(i)] = TextResponse(<<"c", "h", "u", "n", "k", "1", ":", "q">>)
                      => tag_result[i].metadata.semantic_tags
                            = IF i - (BatchOf(i) - 1) * tag_batch_size = 2 THEN << <<"q">> >> ELSE <<>>

\* relevance scoring met a call that raised, a response that does not parse and
\* a response that does
C15_Witness ==
    /\ pc = "rr_scored" /\ rr_client
    /\ \E i, j, k \in 1..Len(rr_responses) :
          /\ rr_responses[i] = Failure
          /\ rr_responses[j] = Garbage
          /\ rr_responses[k].kind = "number"

\* C18: an enabled reranker without llm_client treats every candidate as having
\* relevance 0.5: with relevance_threshold <= 0.5 the relevance filter drops no
\* candidate.
C18_NoClientKeepsAll ==
    (/\ pc \in {"rr_filtered", "rr_diverse", "rr_done"}
     /\ rr_config.enabled /\ ~rr_client
     /\ ~FLess(Half, rr_config.relevance_threshold)) =>
        Len(rr_filtered) = Len(rr_results)


(***************************************************************************)
(* Properties of data errors.                                              *)
(***************************************************************************)
\* the sections (name, start, end) of the text that hold no character, or
\* whitespace only
BlankSections ==
    {[name |-> "methods", start |-> a, end |-> b] : a \in 0..Len(text), b \in 0..Len(text)}
        \cap {sec \in [name : {"methods"}, start : 0..Len(text), end : 0..Len(text)] :
                 sec.start <= sec.end /\ Strip(Slice(text, sec.start, sec.end)) = <<>>}

\* C16: chunk() on empty or whitespace-only text returns no chunk, a section
\* with zero characters contributes no chunk, enrich([]) returns [], and
\* search after build_index([]) returns [].
C16_DataErrorsGiveEmpty ==
    /\ (pc \in {"chunked", "enriched"} /\ Strip(text) = <<>>) => chunks = <<>>
    /\ pc = "split" =>
          \A sec \in BlankSections :
              LET cs == RecursiveSplitWithSections(text, <<sec>>, config)
              IN  \A i \in 1..Len(cs) : cs[i].section # sec.name
    /\ (pc = "enriched" /\ chunks = <<>>) => enriched = <<>>
    /\ (pc = "index" /\ Searched /\ latest = << <<>> >>) => search_log.outcome = Returns(<<>>)

\* chunks were indexed, build_index([]) followed, and a search was made
C16_Witness ==
    /\ pc = "index" /\ Searched /\ latest = << <<>> >>
    /\ Len(bm25._tokenized_corpus) >= 3
    /\ search_log.query = CatQuery /\ search_log.top_k = 10


(***************************************************************************)
(* Properties of construction.                                             *)
(***************************************************************************)
Within01(x) == ~FLess(x, FZero) /\ ~FLess(FRound(1, 1), x)

\* C17: a configuration error is fatal at construction: no constructed BM25Index,
\* HybridRetriever or Reranker lacks its index dependency or holds a negative
\* weight or a threshold outside [0, 1], and no such error first appears in
\* retrieve or rerank.
C17_ConstructedIsWellFormed ==
    (pc \in {"constructed", "used"} /\ ~ctor.raised) =>
        /\ ctor.dependency
        /\ ctor.component = "HybridRetriever" =>
              /\ ~FLess(hybrid_config.bm25_weight, FZero)
              /\ ~FLess(hybrid_config.vector_weight, FZero)
        /\ ctor.component = "Reranker" =>
              /\ Within01(rr_config.diversity_threshold)
              /\ Within01(rr_config.relevance_threshold)
        /\ (pc = "used" /\ ctor.component = "HybridRetriever") => ~history[1].outcome.raised


(***************************************************************************)
(* Properties of _merge_splits and _apply_overlap.                         *)
(***************************************************************************)
\* how many times the character c occurs in the text t
Occurrences(c, t) == Cardinality({i \in 1..Len(t) : t[i] = c})

RECURSIVE OccurrencesIn(_, _, _)
\* how many times c occurs in the texts of chunks[i..]
OccurrencesIn(c, cs, i) ==
    IF i > Len(cs) THEN 0 ELSE Occurrences(c, cs[i].text) + OccurrencesIn(c, cs, i + 1)

\* the characters no separator contains
WordChars(t) == {t[i] : i \in 1..Len(t)} \ {" ", NL, TAB, ".", ","}

\* C19: no text is lost by the merge of split parts: every character of the text
\* that is neither whitespace nor separator punctuation occurs in the raw chunks
\* at least as often as in the text.
C19_NothingDiscarded ==
    pc = "split" =>
        \A c \in WordChars(text) : OccurrencesIn(c, raw_chunks, 1) >= Occurrences(c, text)


\* the slice the overlap of chunk i takes from its predecessor: its last
\* min(len(prev), floor(chunk_size * overlap_percent / 100)) characters
TrailingSlice(prev_text, cfg) ==
    LET n == Min2(Len(prev_text), OverlapChars(cfg))
    IN  Slice(prev_text, Len(prev_text) - n, Len(prev_text))

\* C20: every chunk but the first is prefixed with the last min(len(prev),
\* floor(chunk_size * overlap_percent / 100)) characters of the previous raw chunk
\* and a space, and overlap_with_prev is that count; when the chunk already starts
\* with that slice it is left as it is and the count is 0; with overlap_percent = 0
\* no chunk changes and every count is 0.
C20_OverlapSlice ==
    pc = "overlapped" =>
        \A i \in 1..Len(raw_chunks) :
            LET t == raw_chunks[i].text
                out == chunks_with_overlap[i]
            IN  IF i = 1 \/ StartsWith(t, TrailingSlice(raw_chunks[i - 1].text, config))
                THEN out.text = t /\ out.overlap_prev = 0
                ELSE /\ out.text = TrailingSlice(raw_chunks[i - 1].text, config) \o <<" ">> \o t
                     /\ out.overlap_prev = Len(TrailingSlice(raw_chunks[i - 1].text, config))
                     /\ config.overlap_percent # 0


(***************************************************************************)
(* Properties of the enricher.                                             *)
(***************************************************************************)
\* C21: with a character-offset to page mapping, the page of an enriched chunk is
\* the page of the highest boundary offset that does not exceed the chunk's start
\* offset, and 0 when no boundary is at or below it.
C21_PageOfHighestBoundary ==
    (/\ pc = "enriched" /\ enricher_config.extract_page_numbers
     /\ pdf_metadata # None /\ DOMAIN pdf_metadata.page_map # {}) =>
        \A i \in 1..Len(chunks) :
            LET start == ChunkStart(chunks[i], pdf_metadata)
                below == {o \in DOMAIN pdf_metadata.page_map : o <= start}
            IN  enriched[i].metadata.page =
                    IF below = {} THEN 0
                    ELSE pdf_metadata.page_map[CHOOSE o \in below : \A q \in below : q <= o]


\* C22: after enrich with hierarchical IDs, the first chunk of each section has no
\* parent and every later chunk of the section has the ID of that first chunk as
\* its parent; so every parent named is the ID of an earlier chunk of the output
\* with the same section and the same source.
C22_ParentIsFirstOfSection ==
    (pc = "enriched" /\ enricher_config.hierarchical_ids) =>
        /\ \A i \in 1..Len(enriched) :
              LET same == {j \in 1..Len(enriched) :
                              enriched[j].metadata.section = enriched[i].metadata.section}
                  first == CHOOSE j \in same : \A k \in same : j <= k
              IN  enriched[i].metadata.parent_chunk_id =
                      IF i = first THEN None ELSE enriched[first].id
        /\ \A i \in 1..Len(enriched) :
              enriched[i].metadata.parent_chunk_id # None =>
                  \E j \in 1..(i - 1) :
                      /\ enriched[j].id = enriched[i].metadata.parent_chunk_id
                      /\ enriched[j].metadata.section = enriched[i].metadata.section
                      /\ enriched[j].metadata.source = enriched[i].metadata.source

\* three chunks of one section, the first two given as "body" and relabelled by the
\* enricher: the third is linked to the first
C22_Witness ==
    /\ pc = "enriched" /\ enricher_config.hierarchical_ids
    /\ Len(enriched) = 3
    /\ chunks[1].metadata.section = "body" /\ chunks[3].metadata.section = "results"
    /\ \A i \in 1..3 : enriched[i].metadata.section = "results"
    /\ enriched[1].metadata.parent_chunk_id = None
    /\ enriched[3].metadata.parent_chunk_id = enriched[1].id
    /\ enriched[1].id # enriched[2].id


(***************************************************************************)
(* Properties of rrf_fusion as a whole.                                    *)
(***************************************************************************)
\* the 0-based rank of the chunk id in a result list that holds it
RankIn(results, id) == (CHOOSE p \in 1..Len(results) : results[p].chunk_id = id) - 1

\* the position at which an rrf_fusion call first saw the id: the lexical list
\* comes before the vector list
FirstSeen(call, id) ==
    IF id \in ChunkIdsOf(call.bm25_results) THEN RankIn(call.bm25_results, id)
    ELSE Len(call.bm25_results) + RankIn(call.vector_results, id)

\* the result of the first list of the call that holds the id
FirstSupplied(call, id) ==
    IF id \in ChunkIdsOf(call.bm25_results)
    THEN call.bm25_results[RankIn(call.bm25_results, id) + 1]
    ELSE call.vector_results[RankIn(call.vector_results, id) + 1]

\* the sum of weight / (rrf_k + rank + 1) over the lists of the call that hold the id
SumOfShares(call, id, cfg) ==
    LET b == IF id \in ChunkIdsOf(call.bm25_results)
             THEN FAdd(FZero, FDivInt(cfg.bm25_weight,
                                      cfg.rrf_k + RankIn(call.bm25_results, id) + 1))
             ELSE FZero
    IN  IF id \in ChunkIdsOf(call.vector_results)
        THEN FAdd(b, FDivInt(cfg.vector_weight,
                             cfg.rrf_k + RankIn(call.vector_results, id) + 1))
        ELSE b

\* C23: rrf_fusion returns one result per distinct chunk id of the two lists, with
\* the sum of its weighted reciprocal ranks as score, in non-increasing order of
\* score with ties in first-seen order, tagged "hybrid" and with the text and
\* metadata of the first list that held the id.
C23_FusionResult ==
    pc = "fusion" =>
        \A call \in Calls(fusion_log) :
            LET rs == call.outcome.results
                ids == ChunkIdsOf(call.bm25_results) \cup ChunkIdsOf(call.vector_results)
            IN  /\ ~call.outcome.raised
                /\ Len(rs) = Cardinality(ids)
                /\ ChunkIdsOf(rs) = ids
                /\ \A p \in 1..Len(rs) :
                      /\ rs[p].score = SumOfShares(call, rs[p].chunk_id, hybrid_config)
                      /\ rs[p].source = "hybrid"
                      /\ rs[p].text = FirstSupplied(call, rs[p].chunk_id).text
                      /\ rs[p].metadata = FirstSupplied(call, rs[p].chunk_id).metadata
                /\ \A p \in 1..Len(rs), q \in 1..Len(rs) :
                      p < q =>
                         /\ ~FLess(rs[p].score, rs[q].score)
                         /\ rs[p].score = rs[q].score =>
                               FirstSeen(call, rs[p].chunk_id) < FirstSeen(call, rs[q].chunk_id)


(***************************************************************************)
(* Properties of the context limit and the diversity filter.               *)
(***************************************************************************)
RECURSIVE TokenEstimate(_)
\* the summed token estimate of a list of results: floor(len(text) / 4) each
TokenEstimate(results) ==
    IF results = <<>> THEN 0
    ELSE (Len(Head(results).text) \div 4) + TokenEstimate(Tail(results))

\* rerank went through its stages and returned without cutting to a top_k
ReturnedLimited ==
    /\ pc = "rr_done" /\ rr_config.enabled /\ rr_results # <<>>
    /\ rr_top_k \in {NoInt, 0}

\* C24: what _limit_context returns is a prefix of its input whose summed token
\* estimate is within max_context_tokens, and it ends at the first result that
\* would push the running total over the budget.
C24_LimitIsPrefix ==
    ReturnedLimited =>
        /\ Len(rr_out) <= Len(rr_diverse)
        /\ rr_out = SubSeq(rr_diverse, 1, Len(rr_out))
        /\ TokenEstimate(rr_out) <= rr_config.max_context_tokens
        /\ Len(rr_out) < Len(rr_diverse) =>
              TokenEstimate(SubSeq(rr_diverse, 1, Len(rr_out) + 1))
                  > rr_config.max_context_tokens

\* a result was cut although a later, shorter one would still have fit
C24_Witness ==
    /\ ReturnedLimited
    /\ Len(rr_out) >= 1
    /\ \E j \in (Len(rr_out) + 2)..Len(rr_diverse) :
          TokenEstimate(rr_out) + TokenEstimate(<<rr_diverse[j]>>)
              <= rr_config.max_context_tokens


\* a cancellation arrived during the scoring of the candidates
CancelArrived == \E i \in 1..Len(rr_responses) : rr_responses[i] = Cancelled

\* C25: when a cancellation arrives while rerank scores its candidates, no further
\* candidate is scored and rerank returns instead of ending with no result.
C25_CancelReturnsPartial ==
    CancelArrived =>
        /\ rr_calls = Len(rr_responses)
        /\ pc # "rr_raised"


\* the positions of the filtered list that the diversity filter kept
KeptPositions == {i \in 1..Len(rr_filtered) : rr_filtered[i].chunk_id \in KeptIds}

\* the elements of the sequence s at the positions of K, in order
RECURSIVE Restricted(_, _, _)
Restricted(s, K, i) ==
    IF i > Len(s) THEN <<>>
    ELSE (IF i \in K THEN <<s[i]>> ELSE <<>>) \o Restricted(s, K, i + 1)

\* C26: the diversity filter keeps the first result, keeps a later candidate exactly
\* when its Jaccard similarity to every result kept before it is at most the
\* threshold, and returns the kept results in their input order.
C26_GreedyDiversity ==
    (pc \in {"rr_diverse", "rr_done"} /\ rr_config.enabled /\ rr_results # <<>>) =>
        /\ rr_filtered # <<>> => 1 \in KeptPositions
        /\ rr_diverse = Restricted(rr_filtered, KeptPositions, 1)
        /\ \A i \in 2..Len(rr_filtered) :
              i \in KeptPositions <=>
                  \A j \in KeptPositions :
                      j < i => ~TooSimilar(rr_filtered[i].text, rr_filtered[j].text,
                                          rr_config.diversity_threshold)

\* of three results the third was rejected for its similarity to the second
C26_Witness ==
    /\ pc = "rr_diverse" /\ Len(rr_filtered) = 3
    /\ KeptPositions = {1, 2}
    /\ TooSimilar(rr_filtered[3].text, rr_filtered[2].text, rr_config.diversity_threshold)
    /\ ~TooSimilar(rr_filtered[3].text, rr_filtered[1].text, rr_config.diversity_threshold)


(***************************************************************************)
(* Properties of section detection.                                        *)
(***************************************************************************)
\* the lines of the text that match a heading pattern, by line number
HeadingNumbers(t) ==
    {i \in 1..Len(Split(t, <<NL>>)) : MatchSection(Strip(Split(t, <<NL>>)[i])) # ""}

\* the k-th smallest element of the set S of numbers
Kth(S, k) == CHOOSE h \in S : Cardinality({g \in S : g < h}) = k - 1

\* lines a..b of the text, joined as they were
LinesOf(t, a, b) == Join(SubSeq(Split(t, <<NL>>), a, b), <<NL>>)

\* what the section of the k-th heading holds: the lines from the heading up to the
\* line before the next heading, or up to the end of the text
SectionLines(t, k) ==
    LET H == HeadingNumbers(t)
    IN  LinesOf(t, Kth(H, k),
                IF k < Cardinality(H) THEN Kth(H, k + 1) - 1 ELSE Len(Split(t, <<NL>>)))

RECURSIVE ChunksOfSections(_, _, _)
\* the chunks of the sections of the k-th heading and the later ones
ChunksOfSections(t, cfg, k) ==
    IF k > Cardinality(HeadingNumbers(t)) THEN <<>>
    ELSE (IF Strip(SectionLines(t, k)) # <<>>
          THEN RecursiveSplit(Strip(SectionLines(t, k)),
                              MatchSection(Strip(Split(t, <<NL>>)[Kth(HeadingNumbers(t), k)])),
                              cfg)
          ELSE <<>>)
         \o ChunksOfSections(t, cfg, k + 1)

IsReportOf(out, clean_response) ==
    \E i \in 1..Len(clean_response) :
        /\ clean_response[i] = FINAL_REPORT
        /\ \A j \in 1..(i - 1) : clean_response[j] # FINAL_REPORT
        /\ \E a, b \in (i + 1)..(Len(clean_response) + 1) :
              /\ a <= b
              /\ \A j \in (i + 1)..(a - 1) : IsSpace(clean_response[j])
              /\ \A j \in b..Len(clean_response) : IsSpace(clean_response[j])
              /\ out = SubSeq(clean_response, a, b - 1)
              /\ out # <<>> => ~IsSpace(out[1]) /\ ~IsSpace(out[Len(out)])

ResearchWithinBounds ==
    /\ Len(react_log) <= 6
    /\ \A i \in 1..Len(react_log) : Len(react_log[i].queries) <= 1
    /\ \A i \in 1..Len(react_log) :
          HasToken(react_log[i].response, FINAL_REPORT)
          => /\ i = Len(react_log)
             /\ react_log[i].queries = <<>>
             /\ pc = "researched"
             /\ IsReportOf(react_out.text, react_log[i].response)
    /\ (pc = "researched"
        /\ \A i \in 1..Len(react_log) : ~HasToken(react_log[i].response, FINAL_REPORT))
       => /\ Len(react_log) = 6
          /\ react_out.text # <<>>
          /\ Head(react_out.text) = "Research incomplete. "
    /\ pc = "research" => react_out = None

\* C30: research makes at most 6 language-model calls and at most one retrieval
\* query for each; at the first response that holds "FINAL REPORT:" it returns
\* the text after the marker and queries nothing for that response; when no
\* response holds the marker it returns the "Research incomplete." text after
\* the 6th call; and it always returns.
C30_ResearchTerminates == []ResearchWithinBounds /\ <>(pc = "researched")

\* six calls, a query among them, and the fallback returned
C30_Witness ==
    /\ pc = "researched"
    /\ state = None
    /\ Len(react_log) = 6
    /\ \E i \in 1..6 : react_log[i].queries = <<<<"bleu">>>>
    /\ Head(react_out.text) = "Research incomplete. "


(***************************************************************************)
(* Properties of the workflow graph.                                       *)
(***************************************************************************)
IsPrefixOf(s, t) == Len(s) <= Len(t) /\ s = SubSeq(t, 1, Len(s))

\* the nodes of a complete run, given what the filter and the mode were
NodesOfRun(st) ==
    <<"analyze_website", "search_arxiv", "filter_papers">>
    \o (IF st.best_paper = None THEN <<>>
        ELSE (IF st.mode = "deep" THEN <<"deep_dive">> ELSE <<>>)
             \o <<"simplify_paper", "write_blog">>)

GraphInOrder ==
    state # None
    => /\ \A i, j \in 1..Len(executed) : executed[i] = executed[j] => i = j
       /\ IsPrefixOf(executed, <<"analyze_website", "search_arxiv", "filter_papers">>)
          \/ IsPrefixOf(executed, NodesOfRun(state))
       /\ pc = END => executed = NodesOfRun(state)

\* C29: in every run the nodes execute in the order analyze_website,
\* search_arxiv, filter_papers; then nothing more when no paper passed the filter,
\* else deep_dive exactly when the mode is "deep", then simplify_paper, then
\* write_blog; no node executes twice; and every run reaches END.
C29_WorkflowReachesEnd == []GraphInOrder /\ <>(pc = END)

=============================================================================
